---- MODULE Spec2Model ----
(***************************************************************************)
(* A model of ZeroAgent (apps/server/src/routes/chat.ts): the per-mailbox  *)
(* agent that syncs upstream mail threads into a local cache (the SQL      *)
(* table `threads` plus one blob per thread) and lists the cache.          *)
(*                                                                         *)
(* The agent runs on one JavaScript thread: code between two awaits is     *)
(* atomic, and every await is a point where another call may run.  Each    *)
(* action below is one such atomic segment of a call.                      *)
(***************************************************************************)
EXTENDS Integers, Sequences, FiniteSets, TLC

(***************************************************************************)
(* Bounds of the model.                                                    *)
(***************************************************************************)
\* number of calls of the agent that may be in flight at once
NumCalls == 2
\* cap on _pageCount, the number of pages one syncThreads call fetches
MaxPageCount == 2
\* largest maxResults a cache listing is called with
MaxResultsArg == 3

\* chunks of one response body
MaxChunks == 2

Calls == 1 .. NumCalls

\* number of setupAuth calls that can be in flight at once
NumSetups == 2

Setups == 1 .. NumSetups

\* number of setupAuth calls that start the syncs before the model stops counting
MaxStarts == 2

(***************************************************************************)
(* Configuration read from the environment when the module is loaded.      *)
(***************************************************************************)
\* THREAD_SYNC_MAX_COUNT (default '40'), here set to 2
maxCount == 2

\* the agent's currentFolder field: initialised to 'inbox', never assigned
currentFolder == "inbox"

(***************************************************************************)
(* JavaScript values.                                                      *)
(***************************************************************************)
Null == "<null>"
Undefined == "<undefined>"

\* x || undefined, and the truthiness of a string | null | undefined
Falsy(x) == x \in {Null, Undefined, ""}

OrUndefined(x) == IF Falsy(x) THEN Undefined ELSE x

(***************************************************************************)
(* The upstream mail provider, as seen through driver.list and driver.get. *)
(***************************************************************************)
ThreadIds == {"t1", "t2", "t3"}

Folders == {"inbox", "sent"}

\* continuation tokens: Tokens[k] asks for page k
Tokens == <<"p1", "p2", "p3">>

\* what the upstream sends as nextPageToken with the last page
EmptyTokens == {Null, Undefined, ""}

UpstreamPages(folder) ==
    IF folder = "inbox" THEN << <<"t1", "t2">>, <<"t3">> >>
    ELSE << <<"t3">> >>

PageOfToken(tok) ==
    IF tok = Undefined THEN 1 ELSE CHOOSE k \in 1 .. Len(Tokens) : Tokens[k] = tok

\* the results driver.list({folder, maxResults, pageToken}) can resolve with
DriverList(folder, tok) ==
    LET pages == UpstreamPages(folder)
        k == PageOfToken(tok)
    IN  { [threads |-> pages[k], nextPageToken |-> n] :
            n \in IF k < Len(pages) THEN {Tokens[k + 1]} ELSE EmptyTokens }

\* a Date header as the upstream reports it: a local time and a zone offset
InvalidDate == [valid |-> FALSE, local |-> 0, offset |-> 0]

DateAt(local, offset) == [valid |-> TRUE, local |-> local, offset |-> offset]

\* IGetThreadResponse, reduced to what syncThread reads of it
NoData ==
    [latest |-> FALSE, receivedOn |-> InvalidDate, sender |-> "", subject |-> "",
     tags |-> <<>>]

ThreadData(receivedOn, sender, subject, tags) ==
    [latest |-> TRUE, receivedOn |-> receivedOn, sender |-> sender,
     subject |-> subject, tags |-> tags]

\* thread contents the upstream holds
DataA == ThreadData(DateAt(11, 1), "alice", "hello", <<"INBOX", "UNREAD">>)

DataB == ThreadData(DateAt(9, 0), "bob", "offer", <<"INBOX">>)

DataC == ThreadData(DateAt(10, 0), "carol", "hello", <<"INBOX", "SENT">>)

DataUndated == ThreadData(InvalidDate, "dave", "hello", <<"INBOX">>)

\* the thread data driver.get(threadId) can resolve with: t1 changes upstream
\* between calls, and any thread may come without latest message or date
DriverGet(threadId) ==
    {NoData, DataUndated}
    \cup (IF threadId = "t1" THEN {DataA, DataB}
          ELSE IF threadId = "t2" THEN {DataB}
          ELSE {DataC})

\* driver.modifyLabels(threadIds, {addLabels, removeLabels}): what it is called with
NoModification == [addLabels |-> <<>>, removeLabels |-> <<>>]

RemoveUnread == [addLabels |-> <<>>, removeLabels |-> << "UNREAD" >>]

AddUnread == [addLabels |-> << "UNREAD" >>, removeLabels |-> <<>>]

\* label is one of the labels
Among(label, labels) == \E k \in 1 .. Len(labels) : labels[k] = label

\* the labels of a thread after the upstream has applied the modification
ModifyLabels(tags, modification) ==
    LET kept == SelectSeq(tags, LAMBDA t : ~Among(t, modification.removeLabels))
    IN  kept \o SelectSeq(modification.addLabels, LAMBDA t : ~Among(t, kept))

(***************************************************************************)
(* Text values that SQL compares are sequences of character codes.         *)
(***************************************************************************)
Digit(n) == 48 + n

\* new Date(receivedOn).getTime(): the instant, or NaN (-1) for an invalid date
DateValue(receivedOn) ==
    IF receivedOn.valid THEN receivedOn.local - receivedOn.offset ELSE -1

\* Date.prototype.toISOString of a valid instant: fixed width, in UTC
ToISOString(ms) == << Digit(ms \div 10), Digit(ms % 10) >>

\* SQLite's BINARY collation on TEXT: a < b
RECURSIVE TextLess(_, _)
TextLess(a, b) ==
    IF b = <<>> THEN FALSE
    ELSE IF a = <<>> THEN TRUE
    ELSE IF Head(a) # Head(b) THEN Head(a) < Head(b)
    ELSE TextLess(Tail(a), Tail(b))

\* the characters of the subjects, senders and search texts used
Characters(s) ==
    CASE s = "hello" -> << "h", "e", "l", "l", "o" >>
      [] s = "offer" -> << "o", "f", "f", "e", "r" >>
      [] s = "alice" -> << "a", "l", "i", "c", "e" >>
      [] s = "bob" -> << "b", "o", "b" >>
      [] s = "carol" -> << "c", "a", "r", "o", "l" >>
      [] s = "dave" -> << "d", "a", "v", "e" >>
      [] OTHER -> <<>>

\* text LIKE '%term%', for lower-case text without wildcards
Like(text, term) ==
    \E k \in 0 .. Len(Characters(text)) :
        /\ k + Len(Characters(term)) <= Len(Characters(text))
        /\ SubSeq(Characters(text), k + 1, k + Len(Characters(term))) = Characters(term)

(***************************************************************************)
(* The cache: the threads table (primary key id) and the blob store.       *)
(***************************************************************************)
NoRow ==
    [present |-> FALSE, thread_id |-> "", provider_id |-> "", latest_sender |-> "",
     latest_received_on |-> <<>>, latest_subject |-> "", latest_label_ids |-> <<>>]

\* a slip: the received date is stored as the upstream wrote it, in its own zone
RowOfLocalDate(threadId, threadData) ==
    [present |-> TRUE, thread_id |-> threadId, provider_id |-> "google",
     latest_sender |-> threadData.sender,
     latest_received_on |-> ToISOString(threadData.receivedOn.local),
     latest_subject |-> threadData.subject,
     latest_label_ids |-> threadData.tags]

\* the row syncThread's INSERT OR REPLACE writes for threadId
RowOf(threadId, threadData) ==
    [present |-> TRUE, thread_id |-> threadId, provider_id |-> "google",
     latest_sender |-> threadData.sender,
     latest_received_on |-> ToISOString(DateValue(threadData.receivedOn)),
     latest_subject |-> threadData.subject,
     latest_label_ids |-> threadData.tags]

\* SELECT COUNT(*) FROM threads
ThreadCountOf(table) == Cardinality({ id \in ThreadIds : table[id].present })

EmptyTable == [id \in ThreadIds |-> NoRow]

NoBlob == [stored |-> FALSE, key |-> <<>>, body |-> NoData]

VARIABLES
    name,                   \* the agent's name: the connection id, or 'general'
    driver,                 \* TRUE when this.driver is set
    shouldLoop,             \* THREAD_SYNC_LOOP !== 'false'
    foldersInSync,          \* keys of the Map foldersInSync
    syncThreadsInProgress,  \* keys of the Map syncThreadsInProgress
    threads,                \* the threads table: id -> row
    bucket,                 \* THREADS_BUCKET: thread id -> blob under getThreadKey
    calls,                  \* the calls in flight: position and local variables
    step,                   \* the latest step: whose it was, its effects, its outcome
    listed,                 \* the latest cache listing: its parameters and result
    chatMessageAbortControllers,  \* the Map of AbortControllers: request id -> controller
    chats,                  \* the chat requests: position of each in onMessage and reply
    sent,                   \* the use-chat-response messages broadcast, in order
    upstream,               \* the label modification the upstream has applied: id -> kind
    messages,               \* this.messages: the chat messages in memory
    cf_ai_chat_agent_messages,  \* the rows of the table of stored chat messages
    setups,                 \* the setupAuth calls in flight: position and argument
    syncsStarted,           \* the syncThreads calls setupAuth has made, in order
    mail,                   \* the mail state of useMail
    items,                  \* the threads of useThreads: the listed items
    hoveredEmailId,         \* hoveredEmailId.current
    invoked                 \* the mutations the latest hotkey handler has invoked

vars ==
    << name, driver, shouldLoop, foldersInSync, syncThreadsInProgress, threads,
       bucket, calls, step, listed, chatMessageAbortControllers, chats, sent,
       upstream, messages, cf_ai_chat_agent_messages, setups, syncsStarted,
       mail, items, hoveredEmailId, invoked >>

\* what driver.get(threadId) can resolve with once the upstream has applied the
\* latest label modification of the thread
UpstreamGet(threadId) ==
    { [d EXCEPT !.tags = ModifyLabels(@, upstream[threadId])] : d \in DriverGet(threadId) }

\* `${this.name}/${threadId}.json`
getThreadKey(threadId) == << name, threadId >>

(***************************************************************************)
(* Calls.  A call is a top-level invocation of syncThreads(folder) or of   *)
(* syncThread(threadId); a syncThreads call runs its syncThread calls      *)
(* itself (it awaits each one), so they share the call's position.         *)
(*   idle    no call in this slot                                          *)
(*   count   syncThreads: awaiting getThreadCount()                        *)
(*   list    syncThreads: sleeping, then awaiting listWithRetry            *)
(*   loop    syncThreads: sleeping before the next thread of the page      *)
(*   get     syncThread: awaiting getWithRetry                             *)
(*   put     syncThread: awaiting THREADS_BUCKET.put                       *)
(*   upsert  syncThread: the put has been stored, its promise not resumed  *)
(*   reread  getThreadFromDB: the awaited syncThread has returned           *)
(*   blob    getThreadFromDB: awaiting THREADS_BUCKET.get                   *)
(*   driver  a mail operation: awaiting the driver's method                 *)
(*   search  searchThreads: awaiting the two effects                        *)
(* A call that settles goes back to idle; what its caller observes is the  *)
(* ret of that step.                                                       *)
(***************************************************************************)
NoRet == [kind |-> "pending", synced |-> 0, success |-> FALSE, message |-> ""]

Return(synced, success, message) ==
    [kind |-> "return", synced |-> synced, success |-> success, message |-> message]

Throw(message) ==
    [kind |-> "throw", synced |-> 0, success |-> FALSE, message |-> message]

\* one of the two effects searchThreads runs: pending, resolved with ids, or
\* rejected (and then caught: it succeeds with [])
Pending == [state |-> "pending", ids |-> <<>>]

Resolved(ids) == [state |-> "resolved", ids |-> ids]

Rejected == [state |-> "rejected", ids |-> <<>>]

\* summaries holds result.threads of every page a syncThreads call has fetched;
\* lastAttempt is the parameter of getThreadFromDB and syncs the number of times
\* the call has run the body of syncThread for its miss; maxResults, rag and raw
\* are the locals of searchThreads
IdleCall ==
    [pc |-> "idle", op |-> "none", folder |-> "", tid |-> "", threadCount |-> 0,
     pageToken |-> Null, totalSynced |-> 0, pageCount |-> 0, resThreads |-> <<>>,
     nextPageToken |-> Null, i |-> 0, threadData |-> NoData,
     lastAttempt |-> FALSE, syncs |-> 0, maxResults |-> 0, rag |-> Pending, raw |-> Pending,
     modification |-> NoModification, row |-> NoRow, summaries |-> <<>>]

Fx(t, a) == [t |-> t, a |-> a]

\* broadcastChatMessage({type: Mail_List, folder}) and ({type: Mail_Get, threadId})
MailList(folder) == Fx("broadcast zero_mail_list_threads", folder)

MailGet(threadId) == Fx("broadcast zero_mail_get_thread", threadId)

\* the step of call c, running op(arg): ret is the outcome of the call if the step
\* settles it, inner the outcome of the syncThread a syncThreads loop awaited, fx
\* the upstream requests answered, the writes and the broadcasts of the step
StepOf(c, op, arg, ret, inner, effects) ==
    [c |-> c, op |-> op, arg |-> arg, ret |-> ret, inner |-> inner, fx |-> effects]

NoStep == StepOf(0, "none", "", NoRet, NoRet, <<>>)

NoDriverError == "No driver available"

ListError == "driver.list failed"

GetError == "driver.get failed"

DateError == "RangeError: Invalid time value"

PutError == "THREADS_BUCKET.put failed"

NoText == [given |-> FALSE, text |-> <<>>]

\* op is the operation that listed (getThreadsFromDB itself, list or listThreads)
\* and query the free text list and listThreads are called with
NoListing ==
    [called |-> FALSE, op |-> "none", query |-> Undefined, folder |-> Undefined,
     labelIds |-> <<>>, q |-> Undefined, maxResults |-> 0, pageToken |-> NoText,
     rows |-> <<>>, nextPageToken |-> NoText, given |-> FALSE, start |-> NoText,
     seen |-> <<>>]

\* the ids the client gives its chat requests: each request has an id of its own
ChatIds == {"m1", "m2"}

\* no entry in chatMessageAbortControllers / an entry: new AbortController()
NoController == [present |-> FALSE, aborted |-> FALSE]

NewAbortController == [present |-> TRUE, aborted |-> FALSE]

\* a chat request the agent has not received:
\*   pc   idle | persist (awaiting persistMessages) | stream (reply reads the
\*        response body) | done (the terminator is sent)
\*   gen  the generation behind the response body: none | running | persisting
\*        (onFinish awaits persistMessages) | finished | failed
IdleChat == [pc |-> "idle", gen |-> "none"]

\* the mail state: the open thread and the bulk selection
MailOf(selected, bulkSelected) == [selected |-> selected, bulkSelected |-> bulkSelected]

\* a setupAuth call that is not running; a running one awaits findFirst (pc lookup)
IdleSetup == [pc |-> "idle", connectionId |-> ""]

ChatInit ==
    /\ chatMessageAbortControllers = [id \in ChatIds |-> NoController]
    /\ chats = [id \in ChatIds |-> IdleChat]
    /\ sent = [id \in ChatIds |-> <<>>]
    /\ messages = <<>>
    /\ cf_ai_chat_agent_messages = <<>>
    /\ upstream = [id \in ThreadIds |-> NoModification]
    /\ setups = [a \in Setups |-> IdleSetup]
    /\ syncsStarted = <<>>

\* no hotkey component is mounted
NoHotkeys ==
    /\ mail = MailOf(Null, <<>>)
    /\ items = <<>>
    /\ hoveredEmailId = Null
    /\ invoked = <<>>

Init ==
    /\ ChatInit
    /\ NoHotkeys
    /\ \/ name = "general" /\ driver = FALSE
       \/ name = "conn-1" /\ driver = TRUE
    /\ shouldLoop \in BOOLEAN
    /\ foldersInSync = {}
    /\ syncThreadsInProgress = {}
    /\ threads = EmptyTable
    /\ bucket = [id \in ThreadIds |-> NoBlob]
    /\ calls = [c \in Calls |-> IdleCall]
    /\ step = NoStep
    /\ listed = NoListing

Config == << name, driver, shouldLoop >>

\* the state of the setupAuth calls
Auth == << setups, syncsStarted >>

\* the state of the mail list's hotkeys
Hotkeys == << mail, items, hoveredEmailId, invoked >>

\* the state of the chat protocol
Chat == << chatMessageAbortControllers, chats, sent, messages, cf_ai_chat_agent_messages >>

(***************************************************************************)
(* syncThreads(folder)                                                     *)
(***************************************************************************)
\* this.foldersInSync.has(folder)
FolderBusy(folder) == folder \in foldersInSync

\* a slip: > for >=
AlreadySyncedOffByOne(threadCount) == threadCount > maxCount /\ ~shouldLoop

\* threadCount >= maxCount && !shouldLoop
AlreadySynced(threadCount) == threadCount >= maxCount /\ ~shouldLoop

\* hasMore = pageToken !== null && shouldLoop
HasMore(pageToken) == pageToken # Null /\ shouldLoop

\* no driver: throws before anything else
SyncThreadsNoDriver(c, folder) ==
    /\ calls[c].pc = "idle"
    /\ ~driver
    /\ step' = StepOf(c, "syncThreads", folder, Throw(NoDriverError), NoRet, <<>>)
    /\ UNCHANGED << Config, Auth, Hotkeys, upstream, foldersInSync, syncThreadsInProgress, threads, bucket,
                    calls, listed, Chat >>

\* a slip: the busy check placed inside the try block, so that finally runs
SyncThreadsBusyInsideTry(c, folder) ==
    /\ calls[c].pc = "idle"
    /\ driver
    /\ folder \in foldersInSync
    /\ foldersInSync' = foldersInSync \ {folder}
    /\ step' = StepOf(c, "syncThreads", folder,
                      Return(0, FALSE, "Sync already in progress"), NoRet,
                      << MailList(folder) >>)
    /\ UNCHANGED << Config, Auth, Hotkeys, upstream, syncThreadsInProgress, threads, bucket, calls, listed, Chat >>

\* the folder is marked busy: returns before the try block
SyncThreadsBusy(c, folder) ==
    /\ calls[c].pc = "idle"
    /\ driver
    /\ FolderBusy(folder)
    /\ step' = StepOf(c, "syncThreads", folder,
                      Return(0, FALSE, "Sync already in progress"), NoRet, <<>>)
    /\ UNCHANGED << Config, Auth, Hotkeys, upstream, foldersInSync, syncThreadsInProgress, threads, bucket,
                    calls, listed, Chat >>

\* the folder is not marked: getThreadCount() runs its query, and the call awaits it
SyncThreadsCount(c, folder) ==
    /\ calls[c].pc = "idle"
    /\ driver
    /\ ~FolderBusy(folder)
    /\ calls' = [calls EXCEPT ![c] =
                    [IdleCall EXCEPT !.pc = "count", !.op = "syncThreads",
                                     !.folder = folder,
                                     !.threadCount = ThreadCountOf(threads)]]
    /\ step' = StepOf(c, "syncThreads", folder, NoRet, NoRet, <<>>)
    /\ UNCHANGED << Config, Auth, Hotkeys, upstream, foldersInSync, syncThreadsInProgress, threads, bucket, listed, Chat >>

\* after the await: enough rows and no looping, so nothing is started
SyncThreadsSkip(c) ==
    /\ calls[c].pc = "count"
    /\ AlreadySynced(calls[c].threadCount)
    /\ calls' = [calls EXCEPT ![c] = IdleCall]
    /\ step' = StepOf(c, "syncThreads", calls[c].folder,
                      Return(0, FALSE, "Threads already synced"), NoRet, <<>>)
    /\ UNCHANGED << Config, Auth, Hotkeys, upstream, foldersInSync, syncThreadsInProgress, threads, bucket, listed, Chat >>

\* after the await: mark the folder, enter the try block and the first iteration
SyncThreadsMark(c) ==
    /\ calls[c].pc = "count"
    /\ ~AlreadySynced(calls[c].threadCount)
    /\ foldersInSync' = foldersInSync \cup {calls[c].folder}
    /\ calls' = [calls EXCEPT ![c] =
                    [@ EXCEPT !.pc = "list", !.threadCount = 0, !.totalSynced = 0,
                              !.pageToken = Null, !.pageCount = 1]]
    /\ step' = StepOf(c, "syncThreads", calls[c].folder, NoRet, NoRet, <<>>)
    /\ UNCHANGED << Config, Auth, Hotkeys, upstream, syncThreadsInProgress, threads, bucket, listed, Chat >>

\* a slip: the last broadcast at the end of the try block, not in finally
FinallyWithoutBroadcast(c, r, effects) ==
    /\ foldersInSync' = foldersInSync \ {calls[c].folder}
    /\ calls' = [calls EXCEPT ![c] = IdleCall]
    /\ step' = StepOf(c, "syncThreads", calls[c].folder, r, NoRet,
                      effects \o (IF r.kind = "return" THEN << MailList(calls[c].folder) >>
                                  ELSE <<>>))

\* the finally block: clear the marker and broadcast; the call settles with r
Finally(c, r, effects) ==
    /\ foldersInSync' = foldersInSync \ {calls[c].folder}
    /\ calls' = [calls EXCEPT ![c] = IdleCall]
    /\ step' = StepOf(c, "syncThreads", calls[c].folder, r, NoRet,
                      effects \o << MailList(calls[c].folder) >>)

\* listWithRetry resolves with a page
ListResolves(c) ==
    /\ calls[c].pc = "list"
    /\ \E r \in DriverList(calls[c].folder, OrUndefined(calls[c].pageToken)) :
          calls' = [calls EXCEPT ![c] =
                       [@ EXCEPT !.pc = "loop", !.resThreads = r.threads,
                                 !.nextPageToken = r.nextPageToken, !.i = 1,
                                 !.summaries = @ \o r.threads]]
    /\ step' = StepOf(c, "syncThreads", calls[c].folder, NoRet, NoRet,
                      << Fx("driver.list", calls[c].folder) >>)
    /\ UNCHANGED << Config, Auth, Hotkeys, upstream, foldersInSync, syncThreadsInProgress, threads, bucket, listed, Chat >>

\* a slip: the marker cleared at the end of the try block instead of in finally
ListRejectsKeepsMarker(c) ==
    /\ calls[c].pc = "list"
    /\ calls' = [calls EXCEPT ![c] = IdleCall]
    /\ step' = StepOf(c, "syncThreads", calls[c].folder, Throw(ListError), NoRet,
                      << Fx("driver.list rejected", calls[c].folder),
                         MailList(calls[c].folder) >>)
    /\ UNCHANGED << Config, Auth, Hotkeys, upstream, foldersInSync, syncThreadsInProgress, threads, bucket, listed, Chat >>

\* listWithRetry rejects (the retrying fetch gave up): catch, rethrow, finally
ListRejects(c) ==
    /\ calls[c].pc = "list"
    /\ Finally(c, Throw(ListError), << Fx("driver.list rejected", calls[c].folder) >>)
    /\ UNCHANGED << Config, Auth, Hotkeys, upstream, syncThreadsInProgress, threads, bucket, listed, Chat >>

\* the for loop is over: broadcast the page, and another page is wanted
PageDoneMore(c) ==
    /\ calls[c].pc = "loop"
    /\ calls[c].i > Len(calls[c].resThreads)
    /\ HasMore(calls[c].nextPageToken)
    /\ calls[c].pageCount < MaxPageCount
    /\ calls' = [calls EXCEPT ![c] =
                    [@ EXCEPT !.pc = "list",
                              !.totalSynced = @ + Len(calls[c].resThreads),
                              !.pageToken = calls[c].nextPageToken,
                              !.pageCount = @ + 1,
                              !.resThreads = <<>>, !.nextPageToken = Null, !.i = 0]]
    /\ step' = StepOf(c, "syncThreads", calls[c].folder, NoRet, NoRet,
                      << MailList(calls[c].folder) >>)
    /\ UNCHANGED << Config, Auth, Hotkeys, upstream, foldersInSync, syncThreadsInProgress, threads, bucket, listed, Chat >>

\* a slip: totalSynced is assigned, not added to, so only the last page counts
PageDoneReturnLastPage(c) ==
    /\ calls[c].pc = "loop"
    /\ calls[c].i > Len(calls[c].resThreads)
    /\ ~HasMore(calls[c].nextPageToken)
    /\ Finally(c, Return(Len(calls[c].resThreads), FALSE, ""),
               << MailList(calls[c].folder) >>)
    /\ UNCHANGED << Config, Auth, Hotkeys, upstream, syncThreadsInProgress, threads, bucket, listed, Chat >>

\* the for loop is over: broadcast the page, no more pages, return through finally
PageDoneReturn(c) ==
    /\ calls[c].pc = "loop"
    /\ calls[c].i > Len(calls[c].resThreads)
    /\ ~HasMore(calls[c].nextPageToken)
    /\ Finally(c, Return(calls[c].totalSynced + Len(calls[c].resThreads), FALSE, ""),
               << MailList(calls[c].folder) >>)
    /\ UNCHANGED << Config, Auth, Hotkeys, upstream, syncThreadsInProgress, threads, bucket, listed, Chat >>

(***************************************************************************)
(* syncThread(threadId)                                                    *)
(***************************************************************************)
\* a slip: the check left out
ThreadBusyNever(threadId) == FALSE

\* this.syncThreadsInProgress.has(threadId)
ThreadBusy(threadId) == threadId \in syncThreadsInProgress

\* this.syncThreadsInProgress.delete(threadId)
Release(threadId) == syncThreadsInProgress' = syncThreadsInProgress \ {threadId}

\* the operations that read one thread of the cache through getThreadFromDB; when
\* the syncThread it awaits for a miss throws, its catch block logs and rethrows
GetOperations == {"get", "getThread"}

\* the methods of AgentRpcDO that modify labels upstream and then await
\* Promise.all(threadIds.map((id) => this.mainDo.syncThread(id))): when the
\* syncThread returns they return the upstream's result, when it throws they throw
RpcOperations ==
    {"AgentRpcDO.markThreadsRead", "AgentRpcDO.markThreadsUnread",
     "AgentRpcDO.modifyLabels", "AgentRpcDO.markAsRead", "AgentRpcDO.markAsUnread"}

\* a slip: no try/catch around the awaited syncThread, so that a rejection leaves
\* the loop through the outer catch and finally
SyncThreadSettlesNoCatch(c, r, effects) ==
    IF calls[c].op = "syncThreads" /\ r.kind = "throw"
    THEN Finally(c, r, effects)
    ELSE /\ calls' = [calls EXCEPT ![c] =
                         IF @.op = "syncThreads"
                         THEN [@ EXCEPT !.pc = "loop", !.i = @ + 1, !.tid = "",
                                        !.threadData = NoData]
                         ELSE IdleCall]
         /\ step' = IF calls[c].op = "syncThreads"
                    THEN StepOf(c, "syncThreads", calls[c].folder, NoRet, r, effects)
                    ELSE StepOf(c, "syncThread", calls[c].tid, r, NoRet, effects)
         /\ UNCHANGED foldersInSync

\* the call's syncThread settles with r.  Inside syncThreads it was awaited in a
\* try block whose catch only logs: the loop sleeps and goes on to the next thread
SyncThreadSettles(c, r, effects) ==
    /\ calls' = [calls EXCEPT ![c] =
                    IF @.op = "syncThreads"
                    THEN [@ EXCEPT !.pc = "loop", !.i = @ + 1, !.tid = "",
                                   !.threadData = NoData]
                    ELSE IF @.op \in GetOperations /\ r.kind = "return"
                    THEN [@ EXCEPT !.pc = "reread", !.lastAttempt = TRUE,
                                   !.threadData = NoData]
                    ELSE IdleCall]
    /\ step' = IF calls[c].op = "syncThreads"
               THEN StepOf(c, "syncThreads", calls[c].folder, NoRet, r, effects)
               ELSE IF calls[c].op \in GetOperations
               THEN StepOf(c, calls[c].op, calls[c].tid,
                           IF r.kind = "return" THEN NoRet ELSE r, r, effects)
               ELSE IF calls[c].op \in RpcOperations
               THEN StepOf(c, calls[c].op, calls[c].tid,
                           IF r.kind = "return" THEN Return(0, TRUE, "") ELSE r, r, effects)
               ELSE StepOf(c, "syncThread", calls[c].tid, r, NoRet, effects)
    /\ UNCHANGED foldersInSync

\* a direct call without driver; setupAuth returns at once for 'general'
SyncThreadNoDriver(c, threadId) ==
    /\ calls[c].pc = "idle"
    /\ ~driver
    /\ name = "general"
    /\ step' = StepOf(c, "syncThread", threadId, Throw(NoDriverError), NoRet, <<>>)
    /\ UNCHANGED << Config, Auth, Hotkeys, upstream, foldersInSync, syncThreadsInProgress, threads, bucket,
                    calls, listed, Chat >>

\* a direct call for a thread that is being synced: returns undefined
SyncThreadBusy(c, threadId) ==
    /\ calls[c].pc = "idle"
    /\ driver
    /\ ThreadBusy(threadId)
    /\ step' = StepOf(c, "syncThread", threadId, Return(0, FALSE, Undefined), NoRet, <<>>)
    /\ UNCHANGED << Config, Auth, Hotkeys, upstream, foldersInSync, syncThreadsInProgress, threads, bucket,
                    calls, listed, Chat >>

\* a direct call: mark the thread, enter the try block, await getWithRetry
SyncThreadMark(c, threadId) ==
    /\ calls[c].pc = "idle"
    /\ driver
    /\ ~ThreadBusy(threadId)
    /\ syncThreadsInProgress' = syncThreadsInProgress \cup {threadId}
    /\ calls' = [calls EXCEPT ![c] =
                    [IdleCall EXCEPT !.pc = "get", !.op = "syncThread", !.tid = threadId]]
    /\ step' = StepOf(c, "syncThread", threadId, NoRet, NoRet, <<>>)
    /\ UNCHANGED << Config, Auth, Hotkeys, upstream, foldersInSync, threads, bucket, listed, Chat >>

\* the loop's next thread is being synced by someone else: syncThread returns
\* undefined, the loop sleeps and goes on
LoopSyncThreadBusy(c) ==
    /\ calls[c].pc = "loop"
    /\ calls[c].i <= Len(calls[c].resThreads)
    /\ ThreadBusy(calls[c].resThreads[calls[c].i])
    /\ calls' = [calls EXCEPT ![c] = [@ EXCEPT !.i = @ + 1]]
    /\ step' = StepOf(c, "syncThreads", calls[c].folder, NoRet,
                      Return(0, FALSE, Undefined), <<>>)
    /\ UNCHANGED << Config, Auth, Hotkeys, upstream, foldersInSync, syncThreadsInProgress, threads, bucket, listed, Chat >>

\* the loop calls syncThread for its next thread: mark it, await getWithRetry
LoopSyncThreadMark(c) ==
    /\ calls[c].pc = "loop"
    /\ calls[c].i <= Len(calls[c].resThreads)
    /\ ~ThreadBusy(calls[c].resThreads[calls[c].i])
    /\ syncThreadsInProgress' =
          syncThreadsInProgress \cup {calls[c].resThreads[calls[c].i]}
    /\ calls' = [calls EXCEPT ![c] =
                    [@ EXCEPT !.pc = "get", !.tid = calls[c].resThreads[calls[c].i]]]
    /\ step' = StepOf(c, "syncThreads", calls[c].folder, NoRet, NoRet, <<>>)
    /\ UNCHANGED << Config, Auth, Hotkeys, upstream, foldersInSync, threads, bucket, listed, Chat >>

\* getWithRetry rejects: the catch block clears the marker and rethrows
GetRejects(c) ==
    /\ calls[c].pc = "get"
    /\ Release(calls[c].tid)
    /\ SyncThreadSettles(c, Throw(GetError), << Fx("driver.get rejected", calls[c].tid) >>)
    /\ UNCHANGED << Config, Auth, Hotkeys, upstream, threads, bucket, listed, Chat >>

\* a slip: the else branch returns without clearing the marker
GetNoLatestKeepsMarker(c) ==
    /\ calls[c].pc = "get"
    /\ \E d \in UpstreamGet(calls[c].tid) : ~d.latest
    /\ SyncThreadSettles(c, Return(0, FALSE, "No latest message"),
                         << Fx("driver.get", calls[c].tid) >>)
    /\ UNCHANGED << Config, Auth, Hotkeys, upstream, syncThreadsInProgress, threads, bucket, listed, Chat >>

\* the thread has no latest message: clear the marker, report success: false
GetNoLatest(c) ==
    /\ calls[c].pc = "get"
    /\ \E d \in UpstreamGet(calls[c].tid) : ~d.latest
    /\ Release(calls[c].tid)
    /\ SyncThreadSettles(c, Return(0, FALSE, "No latest message"),
                         << Fx("driver.get", calls[c].tid) >>)
    /\ UNCHANGED << Config, Auth, Hotkeys, upstream, threads, bucket, listed, Chat >>

\* latest.receivedOn is no date: toISOString throws inside the try block
GetInvalidDate(c) ==
    /\ calls[c].pc = "get"
    /\ \E d \in UpstreamGet(calls[c].tid) : d.latest /\ DateValue(d.receivedOn) < 0
    /\ Release(calls[c].tid)
    /\ SyncThreadSettles(c, Throw(DateError), << Fx("driver.get", calls[c].tid) >>)
    /\ UNCHANGED << Config, Auth, Hotkeys, upstream, threads, bucket, listed, Chat >>

\* the thread has a dated latest message: THREADS_BUCKET.put is called and awaited
GetResolves(c) ==
    /\ calls[c].pc = "get"
    /\ \E d \in UpstreamGet(calls[c].tid) :
          /\ d.latest
          /\ DateValue(d.receivedOn) >= 0
          /\ calls' = [calls EXCEPT ![c] = [@ EXCEPT !.pc = "put", !.threadData = d]]
    /\ step' = StepOf(c, calls[c].op,
                      IF calls[c].op = "syncThreads" THEN calls[c].folder ELSE calls[c].tid,
                      NoRet, NoRet, << Fx("driver.get", calls[c].tid) >>)
    /\ UNCHANGED << Config, Auth, Hotkeys, upstream, foldersInSync, syncThreadsInProgress, threads, bucket, listed, Chat >>

\* a slip: the row is written before the put is awaited, so a failed put leaves it
PutRejectsRowFirst(c) ==
    /\ calls[c].pc = "put"
    /\ threads' = [threads EXCEPT ![calls[c].tid] = RowOf(calls[c].tid, calls[c].threadData)]
    /\ Release(calls[c].tid)
    /\ SyncThreadSettles(c, Throw(PutError), << Fx("bucket.put rejected", calls[c].tid) >>)
    /\ UNCHANGED << Config, Auth, Hotkeys, upstream, bucket, listed, Chat >>

\* the put fails: the catch block clears the marker and rethrows
PutRejects(c) ==
    /\ calls[c].pc = "put"
    /\ Release(calls[c].tid)
    /\ SyncThreadSettles(c, Throw(PutError), << Fx("bucket.put rejected", calls[c].tid) >>)
    /\ UNCHANGED << Config, Auth, Hotkeys, upstream, threads, bucket, listed, Chat >>

\* a slip: the put is not awaited, the row is written before the blob is stored
PutResolvesNotStored(c) ==
    /\ calls[c].pc = "put"
    /\ calls' = [calls EXCEPT ![c] = [@ EXCEPT !.pc = "upsert"]]
    /\ step' = StepOf(c, calls[c].op,
                      IF calls[c].op = "syncThreads" THEN calls[c].folder ELSE calls[c].tid,
                      NoRet, NoRet, << Fx("bucket.put", calls[c].tid) >>)
    /\ UNCHANGED << Config, Auth, Hotkeys, upstream, foldersInSync, syncThreadsInProgress, threads, bucket,
                    listed, Chat >>

\* the blob store stores JSON.stringify(threadData) under the thread's key
PutResolves(c) ==
    /\ calls[c].pc = "put"
    /\ bucket' = [bucket EXCEPT ![calls[c].tid] =
                     [stored |-> TRUE, key |-> getThreadKey(calls[c].tid),
                      body |-> calls[c].threadData]]
    /\ calls' = [calls EXCEPT ![c] = [@ EXCEPT !.pc = "upsert"]]
    /\ step' = StepOf(c, calls[c].op,
                      IF calls[c].op = "syncThreads" THEN calls[c].folder ELSE calls[c].tid,
                      NoRet, NoRet, << Fx("bucket.put", calls[c].tid) >>)
    /\ UNCHANGED << Config, Auth, Hotkeys, upstream, foldersInSync, syncThreadsInProgress, threads, listed, Chat >>

\* after the put: INSERT OR REPLACE the row, broadcast, clear the marker, return
Upsert(c) ==
    /\ calls[c].pc = "upsert"
    /\ threads' = [threads EXCEPT ![calls[c].tid] = RowOf(calls[c].tid, calls[c].threadData)]
    /\ Release(calls[c].tid)
    /\ SyncThreadSettles(c, Return(0, TRUE, ""),
          << Fx("sql upsert", calls[c].tid) >>
          \o (IF currentFolder = "inbox" THEN << MailGet(calls[c].tid) >> ELSE <<>>))
    /\ UNCHANGED << Config, Auth, Hotkeys, upstream, bucket, listed, Chat >>

Next ==
    \E c \in Calls :
        \/ \E folder \in Folders :
              \/ SyncThreadsNoDriver(c, folder)
              \/ SyncThreadsBusy(c, folder)
              \/ SyncThreadsCount(c, folder)
        \/ SyncThreadsSkip(c)
        \/ SyncThreadsMark(c)
        \/ ListResolves(c)
        \/ ListRejects(c)
        \/ PageDoneMore(c)
        \/ PageDoneReturn(c)
        \/ \E threadId \in ThreadIds :
              \/ SyncThreadNoDriver(c, threadId)
              \/ SyncThreadBusy(c, threadId)
              \/ SyncThreadMark(c, threadId)
        \/ LoopSyncThreadBusy(c)
        \/ LoopSyncThreadMark(c)
        \/ GetRejects(c)
        \/ GetNoLatest(c)
        \/ GetInvalidDate(c)
        \/ GetResolves(c)
        \/ PutRejects(c)
        \/ PutResolves(c)
        \/ Upsert(c)

Spec == Init /\ [][Next]_vars

(***************************************************************************)
(* getThreadsFromDB({labelIds, folder, q, maxResults, pageToken}): one     *)
(* step, the query runs synchronously.  A text parameter is a record       *)
(* [given, text]; not given stands for undefined (or null in the result).  *)
(***************************************************************************)
\* maxResults = 50 when the caller gives none
DefaultMaxResults == 50

Text(t) == [given |-> TRUE, text |-> t]

\* the truthiness of a string | undefined parameter
Truthy(p) == p.given /\ p.text # <<>>

\* String.prototype.toUpperCase on the folder names used
ToUpperCase(s) ==
    CASE s = "inbox" -> "INBOX"
      [] s = "Sent" -> "SENT"
      [] OTHER -> s

\* the parameters a listing is called with
ListFolders == {Undefined, "", "inbox", "Sent"}

ListLabelIds ==
    { <<>>, <<"UNREAD">>, <<"SENT">>, <<"UNREAD", "SENT">>, <<"INBOX", "SENT">> }

ListQueries == {Undefined, "", "hello"}

\* a number | undefined parameter
NoNumber == [given |-> FALSE, n |-> 0]

Number(n) == [given |-> TRUE, n |-> n]

ListMaxResults == { Number(n) : n \in 0 .. MaxResultsArg } \cup {NoNumber}

\* the destructuring default: maxResults = 50
MaxResultsOf(maxResults) == IF maxResults.given THEN maxResults.n ELSE DefaultMaxResults

ListPageTokens ==
    { NoText, Text(<<>>), Text(<< Digit(1) >>), Text(ToISOString(9)),
      Text(ToISOString(10)), Text(ToISOString(11)) }

\* whereConditions, by the kind of each condition pushed
WhereConditions(folder, labelIds, q, pageToken) ==
    (IF ~Falsy(folder) THEN << "folder" >> ELSE <<>>)
    \o (IF Len(labelIds) > 0
        THEN << IF Len(labelIds) = 1 THEN "label" ELSE "labels" >>
        ELSE <<>>)
    \o (IF ~Falsy(q) THEN << "q" >> ELSE <<>>)
    \o (IF Truthy(pageToken) THEN << "cursor" >> ELSE <<>>)

\* labelIds[0]: undefined for an empty list, and then bound as NULL
FirstLabel(labelIds) == IF Len(labelIds) > 0 THEN labelIds[1] ELSE Undefined

AllRows == [label |-> FALSE, value |-> "", cursor |-> FALSE, before |-> <<>>]

\* the SELECT that is executed: an optional EXISTS (json_each ... value = label) and
\* an optional latest_received_on < cursor.  (No parameter used here contains the
\* text 'latest_received_on <', so condition.includes finds it in the cursor
\* condition only.)
QueryOf(folder, labelIds, q, pageToken) ==
    LET conds == WhereConditions(folder, labelIds, q, pageToken)
        byCursor(text) == [AllRows EXCEPT !.cursor = TRUE, !.before = text]
        byLabel(value) == [AllRows EXCEPT !.label = TRUE, !.value = value]
        byBoth(value, text) ==
            [label |-> TRUE, value |-> value, cursor |-> TRUE, before |-> text]
    IN  IF Len(conds) = 0 THEN AllRows
        ELSE IF Len(conds) = 1
        THEN IF conds[1] = "cursor" THEN byCursor(pageToken.text)
             ELSE IF ~Falsy(folder) THEN byLabel(ToUpperCase(folder))
             ELSE byLabel(FirstLabel(labelIds))
        ELSE IF ~Falsy(folder) /\ Len(labelIds) = 0 /\ Truthy(pageToken)
             THEN byBoth(ToUpperCase(folder), pageToken.text)
             ELSE IF Len(labelIds) = 1 /\ Truthy(pageToken) /\ Falsy(folder)
             THEN byBoth(labelIds[1], pageToken.text)
             ELSE byCursor(IF Truthy(pageToken) THEN pageToken.text ELSE <<>>)

\* a slip: <= for <
BeforeOrAtCursor(text, cursor) == text = cursor \/ TextLess(text, cursor)

\* latest_received_on < cursor
BeforeCursor(text, cursor) == TextLess(text, cursor)

\* EXISTS (SELECT 1 FROM json_each(latest_label_ids) WHERE value = label)
HasLabel(row, label) == \E k \in 1 .. Len(row.latest_label_ids) : row.latest_label_ids[k] = label

\* the ids of the rows the WHERE clause keeps
Selected(table, query) ==
    { id \in ThreadIds :
        /\ table[id].present
        /\ query.label => HasLabel(table[id], query.value)
        /\ query.cursor => BeforeCursor(table[id].latest_received_on, query.before) }

\* ORDER BY latest_received_on DESC: every order of the ids that is descending;
\* SQLite leaves the order of rows with equal keys open
DescendingOrders(table, ids) ==
    { o \in [1 .. Cardinality(ids) -> ids] :
        /\ \A a, b \in 1 .. Cardinality(ids) : a # b => o[a] # o[b]
        /\ \A a, b \in 1 .. Cardinality(ids) :
              a < b => ~TextLess(table[o[a]].latest_received_on,
                                 table[o[b]].latest_received_on) }

\* a slip: one row more than asked for
LimitPlusOne(rows, n) == SubSeq(rows, 1, IF n + 1 < Len(rows) THEN n + 1 ELSE Len(rows))

\* LIMIT n, for n >= 0
Limit(rows, n) == SubSeq(rows, 1, IF n < Len(rows) THEN n ELSE Len(rows))

\* the result sets of SELECT id, latest_received_on ... ORDER BY ... LIMIT maxResults
Select(table, query, maxResults) ==
    { Limit([k \in 1 .. Len(o) |->
                [id |-> o[k], latest_received_on |-> table[o[k]].latest_received_on]],
            maxResults) :
        o \in DescendingOrders(table, Selected(table, query)) }

\* a slip: the cursor of the last row whenever there is one
NextPageTokenOfLastRow(rows, maxResults) ==
    IF Len(rows) > 0 THEN Text(rows[Len(rows)].latest_received_on) ELSE NoText

\* threads.length === maxResults && result.length > 0 ? last latest_received_on : null
NextPageTokenOf(rows, maxResults) ==
    IF Len(rows) = maxResults /\ Len(rows) > 0
    THEN Text(rows[Len(rows)].latest_received_on)
    ELSE NoText

\* the ids of the rows of a page
IdsOf(rows) == [k \in 1 .. Len(rows) |-> rows[k].id]

\* the query of getThreadsFromDB and its result, for operation op called with query.
\* The listing also keeps whether a limit was given, the cursor its paging started
\* from and the ids of the earlier pages of the paging
ListedBy(op, query, folder, labelIds, q, maxResults, pageToken) ==
    \E rows \in Select(threads, QueryOf(folder, labelIds, q, pageToken),
                       MaxResultsOf(maxResults)) :
        listed' = [called |-> TRUE, op |-> op, query |-> query, folder |-> folder,
                   labelIds |-> labelIds, q |-> q, maxResults |-> MaxResultsOf(maxResults),
                   pageToken |-> pageToken, rows |-> rows,
                   nextPageToken |-> NextPageTokenOf(rows, MaxResultsOf(maxResults)),
                   given |-> maxResults.given, start |-> pageToken, seen |-> <<>>]

\* the caller asks for the next page: the same call with the cursor it was given
NextPage ==
    /\ listed.called
    /\ listed.nextPageToken.given
    /\ \E rows \in Select(threads,
                          QueryOf(listed.folder, listed.labelIds, listed.q,
                                  listed.nextPageToken),
                          listed.maxResults) :
          listed' = [listed EXCEPT !.pageToken = listed.nextPageToken,
                                   !.rows = rows,
                                   !.nextPageToken = NextPageTokenOf(rows, listed.maxResults),
                                   !.seen = @ \o IdsOf(listed.rows)]
    /\ UNCHANGED << Config, Auth, Hotkeys, upstream, foldersInSync, syncThreadsInProgress, threads, bucket,
                    calls, step, Chat >>

\* one listing at a time: the caller takes the result before it lists again
GetThreadsFromDB(folder, labelIds, q, maxResults, pageToken) ==
    /\ ~listed.called
    /\ ListedBy("getThreadsFromDB", Undefined, folder, labelIds, q, maxResults, pageToken)
    /\ UNCHANGED << Config, Auth, Hotkeys, upstream, foldersInSync, syncThreadsInProgress, threads, bucket,
                    calls, step, Chat >>

\* the operations list and listThreads
ListOperations == {"list", "listThreads"}

\* list(params) and listThreads(params), with a driver: getThreadsFromDB(params).
\* params holds the free text as `query`; getThreadsFromDB takes `q` from its
\* params, which is undefined here
List(op, folder, query, maxResults, labelIds, pageToken) ==
    /\ ~listed.called
    /\ driver
    /\ ListedBy(op, query, folder, labelIds, Undefined, maxResults, pageToken)
    /\ UNCHANGED << Config, Auth, Hotkeys, upstream, foldersInSync, syncThreadsInProgress, threads, bucket,
                    calls, step, Chat >>

\* a cache the syncs have filled: each thread absent, or as one of its syncs wrote it
InitList ==
    /\ ChatInit
    /\ NoHotkeys
    /\ name = "conn-1"
    /\ driver = TRUE
    /\ shouldLoop = TRUE
    /\ foldersInSync = {}
    /\ syncThreadsInProgress = {}
    /\ \E data \in [ThreadIds -> {NoData, DataA, DataB, DataC}] :
          /\ \A id \in ThreadIds : data[id] \in DriverGet(id)
          /\ threads = [id \in ThreadIds |->
                           IF data[id].latest THEN RowOf(id, data[id]) ELSE NoRow]
          /\ bucket = [id \in ThreadIds |->
                          IF data[id].latest
                          THEN [stored |-> TRUE, key |-> << "conn-1", id >>,
                                body |-> data[id]]
                          ELSE NoBlob]
    /\ calls = [c \in Calls |-> IdleCall]
    /\ step = NoStep
    /\ listed = NoListing

\* the caller has taken the result of the listing
ListReturned ==
    /\ listed.called
    /\ listed' = NoListing
    /\ UNCHANGED << Config, Auth, Hotkeys, upstream, foldersInSync, syncThreadsInProgress, threads, bucket,
                    calls, step, Chat >>

NextList ==
    \/ \E folder \in ListFolders, labelIds \in ListLabelIds, q \in ListQueries,
          maxResults \in ListMaxResults, pageToken \in ListPageTokens :
           \/ GetThreadsFromDB(folder, labelIds, q, maxResults, pageToken)
           \/ \E op \in ListOperations :
                 List(op, folder, q, maxResults, labelIds, pageToken)
    \/ NextPage
    \/ ListReturned

SpecList == InitList /\ [][NextList]_vars

(***************************************************************************)
(* The mail operations.  Each starts with `if (!this.driver) throw new     *)
(* Error('No driver available')`, before its first await.                  *)
(***************************************************************************)
\* the operations that pass their arguments to the driver's method
DriverOperations ==
    { "rawListThreads", "markThreadsRead", "markThreadsUnread", "modifyLabels",
      "listHistory", "getUserLabels", "getLabel", "createLabel", "bulkDelete",
      "bulkArchive", "updateLabel", "deleteLabel", "createDraft", "getDraft",
      "listDrafts", "count", "markAsRead", "markAsUnread", "normalizeIds",
      "sendDraft", "create", "delete", "deleteAllSpam", "getEmailAliases" }

\* every operation that asks for the driver first (syncThreads is above)
MailOperations ==
    DriverOperations \cup ListOperations \cup GetOperations \cup {"searchThreads"}

DriverError == "driver method failed"

NotFoundError == "Thread not found in database, Sync Failed once"

BlobError == "THREADS_BUCKET.get failed"

\* a slip: the operation goes on to the driver's method without a driver
NoDriverProceeds(c, op, arg) ==
    /\ calls[c].pc = "idle"
    /\ ~driver
    /\ calls' = [calls EXCEPT ![c] = [IdleCall EXCEPT !.pc = "driver", !.op = op]]
    /\ step' = StepOf(c, op, arg, NoRet, NoRet, << Fx("driver." \o op, arg) >>)
    /\ UNCHANGED << Config, Auth, Hotkeys, upstream, foldersInSync, syncThreadsInProgress, threads, bucket,
                    listed, Chat >>

\* op(arg) without driver: throws before anything else is done
NoDriver(c, op, arg) ==
    /\ calls[c].pc = "idle"
    /\ ~driver
    /\ step' = StepOf(c, op, arg, Throw(NoDriverError), NoRet, <<>>)
    /\ UNCHANGED << Config, Auth, Hotkeys, upstream, foldersInSync, syncThreadsInProgress, threads, bucket,
                    calls, listed, Chat >>

\* op(...) with driver: the driver's method is called and awaited
DriverCall(c, op) ==
    /\ calls[c].pc = "idle"
    /\ driver
    /\ op \in DriverOperations
    /\ calls' = [calls EXCEPT ![c] = [IdleCall EXCEPT !.pc = "driver", !.op = op]]
    /\ step' = StepOf(c, op, "", NoRet, NoRet, << Fx("driver." \o op, "") >>)
    /\ UNCHANGED << Config, Auth, Hotkeys, upstream, foldersInSync, syncThreadsInProgress, threads, bucket,
                    listed, Chat >>

\* the driver's method resolves: the operation returns its result
DriverResolves(c) ==
    /\ calls[c].pc = "driver"
    /\ calls' = [calls EXCEPT ![c] = IdleCall]
    /\ step' = StepOf(c, calls[c].op, "", Return(0, TRUE, ""), NoRet, <<>>)
    /\ UNCHANGED << Config, Auth, Hotkeys, upstream, foldersInSync, syncThreadsInProgress, threads, bucket,
                    listed, Chat >>

\* the driver's method rejects: so does the operation
DriverRejects(c) ==
    /\ calls[c].pc = "driver"
    /\ calls' = [calls EXCEPT ![c] = IdleCall]
    /\ step' = StepOf(c, calls[c].op, "", Throw(DriverError), NoRet, <<>>)
    /\ UNCHANGED << Config, Auth, Hotkeys, upstream, foldersInSync, syncThreadsInProgress, threads, bucket,
                    listed, Chat >>

(***************************************************************************)
(* get(id) and getThread(id), with a driver: getThreadFromDB(id).          *)
(***************************************************************************)
\* the row is in the cache: THREADS_BUCKET.get is awaited
GetHit(c, op, id) ==
    /\ calls[c].pc = "idle"
    /\ driver
    /\ threads[id].present
    /\ calls' = [calls EXCEPT ![c] = [IdleCall EXCEPT !.pc = "blob", !.op = op, !.tid = id,
                                                      !.row = threads[id]]]
    /\ step' = StepOf(c, op, id, NoRet, NoRet, <<>>)
    /\ UNCHANGED << Config, Auth, Hotkeys, upstream, foldersInSync, syncThreadsInProgress, threads, bucket,
                    listed, Chat >>

\* no row, and the thread is being synced: the awaited syncThread(id) returns
\* undefined without doing anything
GetMissBusy(c, op, id) ==
    /\ calls[c].pc = "idle"
    /\ driver
    /\ ~threads[id].present
    /\ ThreadBusy(id)
    /\ calls' = [calls EXCEPT ![c] =
                    [IdleCall EXCEPT !.pc = "reread", !.op = op, !.tid = id,
                                     !.lastAttempt = TRUE]]
    /\ step' = StepOf(c, op, id, NoRet, Return(0, FALSE, Undefined), <<>>)
    /\ UNCHANGED << Config, Auth, Hotkeys, upstream, foldersInSync, syncThreadsInProgress, threads, bucket,
                    listed, Chat >>

\* no row: the awaited syncThread(id) marks the thread and awaits getWithRetry
GetMissMark(c, op, id) ==
    /\ calls[c].pc = "idle"
    /\ driver
    /\ ~threads[id].present
    /\ ~ThreadBusy(id)
    /\ syncThreadsInProgress' = syncThreadsInProgress \cup {id}
    /\ calls' = [calls EXCEPT ![c] =
                    [IdleCall EXCEPT !.pc = "get", !.op = op, !.tid = id, !.syncs = 1]]
    /\ step' = StepOf(c, op, id, NoRet, NoRet, <<>>)
    /\ UNCHANGED << Config, Auth, Hotkeys, upstream, foldersInSync, threads, bucket, listed, Chat >>

\* getThreadFromDB(id, true) finds the row: THREADS_BUCKET.get is awaited
RereadHit(c) ==
    /\ calls[c].pc = "reread"
    /\ threads[calls[c].tid].present
    /\ calls' = [calls EXCEPT ![c] = [@ EXCEPT !.pc = "blob", !.row = threads[calls[c].tid]]]
    /\ step' = StepOf(c, calls[c].op, calls[c].tid, NoRet, NoRet, <<>>)
    /\ UNCHANGED << Config, Auth, Hotkeys, upstream, foldersInSync, syncThreadsInProgress, threads, bucket,
                    listed, Chat >>

\* getThreadFromDB(id, true) finds no row: lastAttempt, so it throws
RereadMiss(c) ==
    /\ calls[c].pc = "reread"
    /\ ~threads[calls[c].tid].present
    /\ calls' = [calls EXCEPT ![c] = IdleCall]
    /\ step' = StepOf(c, calls[c].op, calls[c].tid, Throw(NotFoundError), NoRet, <<>>)
    /\ UNCHANGED << Config, Auth, Hotkeys, upstream, foldersInSync, syncThreadsInProgress, threads, bucket,
                    listed, Chat >>

\* the IGetThreadResponse of getThreadFromDB: labels and hasUnread from the row
\* read before the await, messages from the blob read after it (the thread data
\* stored there stands for its messages; [] when there is no blob)
ThreadResponse(row, blob) ==
    [kind |-> "return", synced |-> 0, success |-> TRUE, message |-> "",
     labels |-> row.latest_label_ids,
     hasUnread |-> Among("UNREAD", row.latest_label_ids),
     messages |-> IF blob.stored THEN blob.body ELSE NoData]

\* the blob (or null) is read: the thread is returned
BlobResolves(c) ==
    /\ calls[c].pc = "blob"
    /\ calls' = [calls EXCEPT ![c] = IdleCall]
    /\ step' = StepOf(c, calls[c].op, calls[c].tid,
                      ThreadResponse(calls[c].row, bucket[calls[c].tid]), NoRet,
                      << Fx("bucket.get", calls[c].tid) >>)
    /\ UNCHANGED << Config, Auth, Hotkeys, upstream, foldersInSync, syncThreadsInProgress, threads, bucket,
                    listed, Chat >>

\* THREADS_BUCKET.get rejects: the catch block logs and rethrows
BlobRejects(c) ==
    /\ calls[c].pc = "blob"
    /\ calls' = [calls EXCEPT ![c] = IdleCall]
    /\ step' = StepOf(c, calls[c].op, calls[c].tid, Throw(BlobError), NoRet,
                      << Fx("bucket.get rejected", calls[c].tid) >>)
    /\ UNCHANGED << Config, Auth, Hotkeys, upstream, foldersInSync, syncThreadsInProgress, threads, bucket,
                    listed, Chat >>

NextGet ==
    \E c \in Calls :
        \/ \E id \in ThreadIds :
              \/ \E op \in GetOperations :
                    \/ NoDriver(c, op, id)
                    \/ GetHit(c, op, id)
                    \/ GetMissBusy(c, op, id)
                    \/ GetMissMark(c, op, id)
              \/ SyncThreadNoDriver(c, id)
              \/ SyncThreadBusy(c, id)
              \/ SyncThreadMark(c, id)
        \/ RereadHit(c)
        \/ RereadMiss(c)
        \/ BlobResolves(c)
        \/ BlobRejects(c)
        \/ GetRejects(c)
        \/ GetNoLatest(c)
        \/ GetInvalidDate(c)
        \/ GetResolves(c)
        \/ PutRejects(c)
        \/ PutResolves(c)
        \/ Upsert(c)

SpecGet == Init /\ [][NextGet]_vars

(***************************************************************************)
(* searchThreads({query, folder, maxResults, labelIds, pageToken}), with a *)
(* driver: two effects run concurrently, each with catchAll(() => []).     *)
(***************************************************************************)
\* the maxResults searchThreads is called with (the default when not given)
SearchMaxResults == {0, 1, DefaultMaxResults}

\* the threadId attributes of the data inboxRag(query) can resolve with
RagIds == { <<>>, << "" >>, << "t1" >>, << "", "t1" >>, << "t1", "t2" >> }

\* ids.filter(Boolean)
FilterBoolean(ids) == SelectSeq(ids, LAMBDA id : ~Falsy(id))

\* the ids of the threads driver.list can resolve with
RawIds == { <<>>, << "t3" >> }

\* what searchThreads returns
SearchResult(threadIds, source) ==
    [kind |-> "return", synced |-> 0, success |-> TRUE, message |-> source,
     threadIds |-> threadIds]

\* both effects are started: inboxRag(query) and driver.list(...)
SearchThreadsStart(c, maxResults) ==
    /\ calls[c].pc = "idle"
    /\ driver
    /\ calls' = [calls EXCEPT ![c] =
                    [IdleCall EXCEPT !.pc = "search", !.op = "searchThreads",
                                     !.maxResults = maxResults]]
    /\ step' = StepOf(c, "searchThreads", "", NoRet, NoRet,
                      << Fx("autorag.aiSearch", ""), Fx("driver.list", "") >>)
    /\ UNCHANGED << Config, Auth, Hotkeys, upstream, foldersInSync, syncThreadsInProgress, threads, bucket,
                    listed, Chat >>

\* inboxRag resolves: the ids that are not empty, then ids.slice(0, maxResults)
RagResolves(c, ids) ==
    /\ calls[c].pc = "search"
    /\ calls[c].rag = Pending
    /\ calls' = [calls EXCEPT ![c] =
                    [@ EXCEPT !.rag = Resolved(Limit(FilterBoolean(ids), calls[c].maxResults))]]
    /\ step' = StepOf(c, "searchThreads", "", NoRet, NoRet, << Fx("rag resolved", "") >>)
    /\ UNCHANGED << Config, Auth, Hotkeys, upstream, foldersInSync, syncThreadsInProgress, threads, bucket,
                    listed, Chat >>

\* a slip: no catchAll on the effect, so that its failure fails searchThreads
RagRejectsUncaught(c) ==
    /\ calls[c].pc = "search"
    /\ calls[c].rag = Pending
    /\ calls' = [calls EXCEPT ![c] = IdleCall]
    /\ step' = StepOf(c, "searchThreads", "", Throw("autorag failed"), NoRet,
                      << Fx("rag rejected", "") >>)
    /\ UNCHANGED << Config, Auth, Hotkeys, upstream, foldersInSync, syncThreadsInProgress, threads, bucket,
                    listed, Chat >>

\* inboxRag rejects: catchAll makes the effect succeed with []
RagRejects(c) ==
    /\ calls[c].pc = "search"
    /\ calls[c].rag = Pending
    /\ calls' = [calls EXCEPT ![c] = [@ EXCEPT !.rag = Rejected]]
    /\ step' = StepOf(c, "searchThreads", "", NoRet, NoRet, << Fx("rag rejected", "") >>)
    /\ UNCHANGED << Config, Auth, Hotkeys, upstream, foldersInSync, syncThreadsInProgress, threads, bucket,
                    listed, Chat >>

\* driver.list resolves: the ids of its threads
RawResolves(c, ids) ==
    /\ calls[c].pc = "search"
    /\ calls[c].raw = Pending
    /\ calls' = [calls EXCEPT ![c] = [@ EXCEPT !.raw = Resolved(ids)]]
    /\ step' = StepOf(c, "searchThreads", "", NoRet, NoRet, << Fx("raw resolved", "") >>)
    /\ UNCHANGED << Config, Auth, Hotkeys, upstream, foldersInSync, syncThreadsInProgress, threads, bucket,
                    listed, Chat >>

\* driver.list rejects: catchAll makes the effect succeed with []
RawRejects(c) ==
    /\ calls[c].pc = "search"
    /\ calls[c].raw = Pending
    /\ calls' = [calls EXCEPT ![c] = [@ EXCEPT !.raw = Rejected]]
    /\ step' = StepOf(c, "searchThreads", "", NoRet, NoRet, << Fx("raw rejected", "") >>)
    /\ UNCHANGED << Config, Auth, Hotkeys, upstream, foldersInSync, syncThreadsInProgress, threads, bucket,
                    listed, Chat >>

\* a slip: the raw listing is preferred
SearchThreadsReturnsRawFirst(c) ==
    /\ calls[c].pc = "search"
    /\ calls[c].rag # Pending
    /\ calls[c].raw # Pending
    /\ calls' = [calls EXCEPT ![c] = IdleCall]
    /\ step' = StepOf(c, "searchThreads", "",
                      IF Len(calls[c].raw.ids) > 0
                      THEN SearchResult(calls[c].raw.ids, "raw")
                      ELSE SearchResult(calls[c].rag.ids, "autorag"),
                      NoRet,
                      << Fx("rag", calls[c].rag.state), Fx("raw", calls[c].raw.state) >>)
    /\ UNCHANGED << Config, Auth, Hotkeys, upstream, foldersInSync, syncThreadsInProgress, threads, bucket,
                    listed, Chat >>

\* both effects have ended: the ids of inboxRag if there are any, else the raw ids.
\* The step's effects name how the two effects ended
SearchThreadsReturns(c) ==
    /\ calls[c].pc = "search"
    /\ calls[c].rag # Pending
    /\ calls[c].raw # Pending
    /\ calls' = [calls EXCEPT ![c] = IdleCall]
    /\ step' = StepOf(c, "searchThreads", "",
                      IF Len(calls[c].rag.ids) > 0
                      THEN SearchResult(calls[c].rag.ids, "autorag")
                      ELSE SearchResult(calls[c].raw.ids, "raw"),
                      NoRet,
                      << Fx("rag", calls[c].rag.state), Fx("raw", calls[c].raw.state) >>)
    /\ UNCHANGED << Config, Auth, Hotkeys, upstream, foldersInSync, syncThreadsInProgress, threads, bucket,
                    listed, Chat >>

NextOps ==
    \E c \in Calls :
        \/ \E op \in MailOperations :
              \/ NoDriver(c, op, "")
              \/ DriverCall(c, op)
        \/ \E folder \in Folders : SyncThreadsNoDriver(c, folder)
        \/ DriverResolves(c)
        \/ DriverRejects(c)
        \/ \E maxResults \in SearchMaxResults : SearchThreadsStart(c, maxResults)
        \/ \E ids \in RagIds : RagResolves(c, ids)
        \/ RagRejects(c)
        \/ \E ids \in RawIds : RawResolves(c, ids)
        \/ RawRejects(c)
        \/ SearchThreadsReturns(c)

SpecOps == Init /\ [][NextOps]_vars

(***************************************************************************)
(* AgentRpcDO: label modifications with write-through.  threadIds holds    *)
(* one id, so that Promise.all awaits one syncThread.                      *)
(*   modify  awaiting the mainDo method, which awaits the driver           *)
(*   get, put, upsert   inside the syncThread of the thread                *)
(***************************************************************************)
ModifyError == "driver.modifyLabels failed"

\* what the method asks the upstream to do; modifyLabels passes its arguments on
ModificationsOf(op) ==
    IF op \in {"AgentRpcDO.markThreadsRead", "AgentRpcDO.markAsRead"} THEN {RemoveUnread}
    ELSE IF op \in {"AgentRpcDO.markThreadsUnread", "AgentRpcDO.markAsUnread"} THEN {AddUnread}
    ELSE {RemoveUnread, AddUnread}

\* the mainDo method throws when there is no driver
RpcNoDriver(c, op, threadId) ==
    /\ calls[c].pc = "idle"
    /\ ~driver
    /\ step' = StepOf(c, op, threadId, Throw(NoDriverError), NoRet, <<>>)
    /\ UNCHANGED << Config, Auth, Hotkeys, upstream, foldersInSync, syncThreadsInProgress, threads, bucket,
                    calls, listed, Chat >>

\* the mainDo method calls the driver and awaits it
RpcModify(c, op, threadId, modification) ==
    /\ calls[c].pc = "idle"
    /\ driver
    /\ calls' = [calls EXCEPT ![c] =
                    [IdleCall EXCEPT !.pc = "modify", !.op = op, !.tid = threadId,
                                     !.modification = modification]]
    /\ step' = StepOf(c, op, threadId, NoRet, NoRet, <<>>)
    /\ UNCHANGED << Config, Auth, Hotkeys, upstream, foldersInSync, syncThreadsInProgress, threads, bucket,
                    listed, Chat >>

\* the driver rejects: the method throws before any syncThread
ModifyRejects(c) ==
    /\ calls[c].pc = "modify"
    /\ calls' = [calls EXCEPT ![c] = IdleCall]
    /\ step' = StepOf(c, calls[c].op, calls[c].tid, Throw(ModifyError), NoRet,
                      << Fx("driver.modifyLabels rejected", calls[c].tid) >>)
    /\ UNCHANGED << Config, Auth, Hotkeys, upstream, foldersInSync, syncThreadsInProgress, threads, bucket,
                    listed, Chat >>

\* the upstream has applied the modification; the thread is being synced, so
\* syncThread returns undefined and the method returns the upstream's result
ModifyResolvesBusy(c) ==
    /\ calls[c].pc = "modify"
    /\ ThreadBusy(calls[c].tid)
    /\ upstream' = [upstream EXCEPT ![calls[c].tid] = calls[c].modification]
    /\ calls' = [calls EXCEPT ![c] = IdleCall]
    /\ step' = StepOf(c, calls[c].op, calls[c].tid, Return(0, TRUE, ""),
                      Return(0, FALSE, Undefined),
                      << Fx("driver.modifyLabels", calls[c].tid) >>)
    /\ UNCHANGED << Config, Auth, Hotkeys, foldersInSync, syncThreadsInProgress, threads, bucket,
                    listed, Chat >>

\* the upstream has applied the modification; syncThread marks the thread and
\* awaits getWithRetry
ModifyResolvesMark(c) ==
    /\ calls[c].pc = "modify"
    /\ ~ThreadBusy(calls[c].tid)
    /\ upstream' = [upstream EXCEPT ![calls[c].tid] = calls[c].modification]
    /\ syncThreadsInProgress' = syncThreadsInProgress \cup {calls[c].tid}
    /\ calls' = [calls EXCEPT ![c] = [@ EXCEPT !.pc = "get"]]
    /\ step' = StepOf(c, calls[c].op, calls[c].tid, NoRet, NoRet,
                      << Fx("driver.modifyLabels", calls[c].tid) >>)
    /\ UNCHANGED << Config, Auth, Hotkeys, foldersInSync, threads, bucket, listed, Chat >>

\* the thread ids the modifications are asked for
Affected == {"t1"}

NextRpc ==
    \E c \in Calls :
        \/ \E threadId \in ThreadIds :
              \/ SyncThreadNoDriver(c, threadId)
              \/ SyncThreadBusy(c, threadId)
              \/ SyncThreadMark(c, threadId)
        \/ \E threadId \in Affected :
              \/ \E op \in RpcOperations :
                    \/ RpcNoDriver(c, op, threadId)
                    \/ \E modification \in ModificationsOf(op) :
                          RpcModify(c, op, threadId, modification)
        \/ ModifyRejects(c)
        \/ ModifyResolvesBusy(c)
        \/ ModifyResolvesMark(c)
        \/ GetRejects(c)
        \/ GetNoLatest(c)
        \/ GetInvalidDate(c)
        \/ GetResolves(c)
        \/ PutRejects(c)
        \/ PutResolves(c)
        \/ Upsert(c)

SpecRpc == Init /\ [][NextRpc]_vars

(***************************************************************************)
(* The chat protocol: onMessage and reply.  The response body is the data  *)
(* stream of createDataStreamResponse; its chunks come from the generation *)
(* (streamText) that execute starts, and it ends when the generation has   *)
(* ended or when execute returned without starting one.  onChatMessage     *)
(* always returns that response, so onMessage always calls reply.          *)
(***************************************************************************)
\* body of a done: false message (the decoded chunk) and of the terminator
ChunkBody == "chunk"

UseChatResponse(body, done) == [body |-> body, done |-> done]

Broadcast(type, id) == Fx("broadcast " \o type, id)

\* broadcastChatMessage(message, [connection.id]): to every connection but one
BroadcastExcept(type, without) == Fx("broadcast " \o type \o " without", without)

\* the connections of the agent's WebSocket clients
Connections == {"ws1", "ws2"}

\* the message list of a use-chat-request, and the list with the response appended
RequestMessages(id) == << id >>

appendResponseMessages(list) == Append(list, "response")

\* persistMessages(list) of the AIChatAgent base class: it replaces the rows of
\* cf_ai_chat_agent_messages by the list and sets this.messages to it
persistMessages(list) ==
    /\ cf_ai_chat_agent_messages' = list
    /\ messages' = list

ChatStep(type, id, effects) == StepOf(0, type, id, Return(0, TRUE, ""), NoRet, effects)

\* this.chatMessageAbortControllers.has(id)
HasAbortController(id) == chatMessageAbortControllers[id].present

\* getAbortSignal(id): the entry is created unless there is one
getAbortSignal(id) ==
    chatMessageAbortControllers' =
        [chatMessageAbortControllers EXCEPT ![id] =
            IF HasAbortController(id) THEN @ ELSE NewAbortController]

\* removeAbortController(id)
removeAbortController(id) ==
    chatMessageAbortControllers' = [chatMessageAbortControllers EXCEPT ![id] = NoController]

\* a slip: the entry is created when there is none
cancelChatRequestCreates(id) ==
    chatMessageAbortControllers' =
        [chatMessageAbortControllers EXCEPT ![id] = [present |-> TRUE, aborted |-> TRUE]]

\* cancelChatRequest(id): abort() on the entry's controller if there is one
cancelChatRequest(id) ==
    chatMessageAbortControllers' =
        [chatMessageAbortControllers EXCEPT ![id] =
            IF HasAbortController(id) THEN [@ EXCEPT !.aborted = TRUE] ELSE @]

\* controller.abort() for every controller in the map
RECURSIVE AbortEach(_)
AbortEach(ids) ==
    IF ids = {} THEN <<>>
    ELSE LET id == CHOOSE x \in ids : TRUE
         IN  << Fx("controller.abort", id) >> \o AbortEach(ids \ {id})

\* a slip: the controllers are aborted and stay in the map
destroyAbortControllersKeepsMap ==
    chatMessageAbortControllers' =
        [id \in ChatIds |->
            IF HasAbortController(id) THEN [present |-> TRUE, aborted |-> TRUE]
            ELSE NoController]

\* destroyAbortControllers(): abort every controller, clear the map
destroyAbortControllers ==
    chatMessageAbortControllers' = [id \in ChatIds |-> NoController]

\* use-chat-request (POST): broadcast the messages, await persistMessages
UseChatRequest(id) ==
    /\ chats[id].pc = "idle"
    /\ chats' = [chats EXCEPT ![id] = [@ EXCEPT !.pc = "persist"]]
    /\ persistMessages(RequestMessages(id))
    /\ step' = ChatStep("cf_agent_use_chat_request", id, << Broadcast("cf_agent_chat_messages", id) >>)
    /\ UNCHANGED << Config, Auth, Hotkeys, upstream, foldersInSync, syncThreadsInProgress, threads, bucket, calls,
                    listed, chatMessageAbortControllers, sent >>

\* the messages are persisted: getAbortSignal, onChatMessage (execute returns at
\* once on the 'general' agent, else it starts streamText; the options holding
\* the abort signal are not used), then reply starts reading the response body
ChatMessagesPersisted(id) ==
    /\ chats[id].pc = "persist"
    /\ getAbortSignal(id)
    /\ chats' = [chats EXCEPT ![id] =
                    [pc |-> "stream", gen |-> IF name = "general" THEN "none" ELSE "running"]]
    /\ step' = ChatStep("onChatMessage", id, <<>>)
    /\ UNCHANGED << Config, Auth, Hotkeys, upstream, foldersInSync, syncThreadsInProgress, threads, bucket, calls,
                    listed, messages, cf_ai_chat_agent_messages, sent >>

\* the generation yields a chunk: the loop of reply broadcasts it with done: false
ReplyChunk(id) ==
    /\ chats[id].pc = "stream"
    /\ chats[id].gen = "running"
    /\ Len(sent[id]) < MaxChunks
    /\ sent' = [sent EXCEPT ![id] = Append(@, UseChatResponse(ChunkBody, FALSE))]
    /\ step' = ChatStep("reply", id, << Broadcast("cf_agent_use_chat_response", id) >>)
    /\ UNCHANGED << Config, Auth, Hotkeys, upstream, foldersInSync, syncThreadsInProgress, threads, bucket, calls,
                    listed, messages, cf_ai_chat_agent_messages, chatMessageAbortControllers, chats >>

\* the generation ends: onFinish runs and awaits persistMessages
GenerationFinishes(id) ==
    /\ chats[id].gen = "running"
    /\ chats' = [chats EXCEPT ![id] = [@ EXCEPT !.gen = "persisting"]]
    /\ persistMessages(appendResponseMessages(RequestMessages(id)))
    /\ step' = ChatStep("onFinish", id, <<>>)
    /\ UNCHANGED << Config, Auth, Hotkeys, upstream, foldersInSync, syncThreadsInProgress, threads, bucket, calls,
                    listed, chatMessageAbortControllers, sent >>

\* onFinish resumes: removeAbortController(chatMessageId)
FinishPersisted(id) ==
    /\ chats[id].gen = "persisting"
    /\ removeAbortController(id)
    /\ chats' = [chats EXCEPT ![id] = [@ EXCEPT !.gen = "finished"]]
    /\ step' = ChatStep("removeAbortController", id, <<>>)
    /\ UNCHANGED << Config, Auth, Hotkeys, upstream, foldersInSync, syncThreadsInProgress, threads, bucket, calls,
                    listed, messages, cf_ai_chat_agent_messages, sent >>

\* the generation fails: onError logs, onFinish is not called
GenerationFails(id) ==
    /\ chats[id].gen = "running"
    /\ chats' = [chats EXCEPT ![id] = [@ EXCEPT !.gen = "failed"]]
    /\ step' = ChatStep("onError", id, <<>>)
    /\ UNCHANGED << Config, Auth, Hotkeys, upstream, foldersInSync, syncThreadsInProgress, threads, bucket, calls,
                    listed, messages, cf_ai_chat_agent_messages, chatMessageAbortControllers, sent >>

\* a slip: reply returns without the terminator
ReplyEndsSilently(id) ==
    /\ chats[id].pc = "stream"
    /\ chats[id].gen # "running"
    /\ chats' = [chats EXCEPT ![id] = [@ EXCEPT !.pc = "done"]]
    /\ step' = ChatStep("reply", id, <<>>)
    /\ UNCHANGED << Config, Auth, Hotkeys, upstream, foldersInSync, syncThreadsInProgress, threads, bucket, calls,
                    listed, messages, cf_ai_chat_agent_messages, chatMessageAbortControllers, sent >>

\* the response body ends: reply broadcasts the terminator, done: true with body ''
ReplyEnds(id) ==
    /\ chats[id].pc = "stream"
    /\ chats[id].gen # "running"
    /\ sent' = [sent EXCEPT ![id] = Append(@, UseChatResponse("", TRUE))]
    /\ chats' = [chats EXCEPT ![id] = [@ EXCEPT !.pc = "done"]]
    /\ step' = ChatStep("reply", id, << Broadcast("cf_agent_use_chat_response", id) >>)
    /\ UNCHANGED << Config, Auth, Hotkeys, upstream, foldersInSync, syncThreadsInProgress, threads, bucket, calls,
                    listed, messages, cf_ai_chat_agent_messages, chatMessageAbortControllers >>

\* chat-request-cancel: cancelChatRequest(data.id)
ChatRequestCancel(id) ==
    /\ cancelChatRequest(id)
    /\ step' = ChatStep("cf_agent_chat_request_cancel", id, <<>>)
    /\ UNCHANGED << Config, Auth, Hotkeys, upstream, foldersInSync, syncThreadsInProgress, threads, bucket, calls,
                    listed, messages, cf_ai_chat_agent_messages, chats, sent >>

\* chat-messages: persistMessages(data.messages)
ChatMessages(id) ==
    /\ persistMessages(RequestMessages(id))
    /\ step' = ChatStep("cf_agent_chat_messages", id, << Broadcast("cf_agent_chat_messages", id) >>)
    /\ UNCHANGED << Config, Auth, Hotkeys, upstream, foldersInSync, syncThreadsInProgress, threads, bucket, calls,
                    listed, chatMessageAbortControllers, chats, sent >>

\* chat-clear from a connection: destroyAbortControllers, delete the stored
\* messages, empty this.messages, broadcast chat-clear to the other connections
ChatClear(connection) ==
    /\ destroyAbortControllers
    /\ cf_ai_chat_agent_messages' = <<>>
    /\ messages' = <<>>
    /\ step' = ChatStep("cf_agent_chat_clear", connection,
                        AbortEach({ id \in ChatIds : HasAbortController(id) })
                        \o << Fx("sql delete", "cf_ai_chat_agent_messages"),
                              BroadcastExcept("cf_agent_chat_clear", connection) >>)
    /\ UNCHANGED << Config, Auth, Hotkeys, upstream, foldersInSync, syncThreadsInProgress, threads, bucket, calls,
                    listed, chats, sent >>

\* what a WebSocket delivers: a string, or binary data
Binary == [string |-> FALSE, text |-> ""]

String(text) == [string |-> TRUE, text |-> text]

\* JSON.parse(text) returns for these texts and throws a SyntaxError for the others
JsonTexts == {"{\"type\":\"cf_agent_chat_clear\"}", "{}", "null", "0"}

\* the messages onMessage takes no action for
WSMessages == {Binary, String(""), String("{\"type\":"), String("hello")}

\* a slip: JSON.parse outside the try block, its SyntaxError leaves onMessage
OnMessageIgnoredThrows(message) ==
    /\ message.string => message.text \notin JsonTexts
    /\ step' = StepOf(0, "onMessage", message.text,
                      IF message.string THEN Throw("SyntaxError") ELSE Return(0, TRUE, ""),
                      NoRet, <<>>)
    /\ UNCHANGED << Config, Auth, Hotkeys, upstream, foldersInSync, syncThreadsInProgress, threads, bucket, calls,
                    listed, Chat >>

\* onMessage for a message that is no string (the if has no else), or a string
\* JSON.parse throws for (the catch block warns and returns)
OnMessageIgnored(message) ==
    /\ message.string => message.text \notin JsonTexts
    /\ step' = ChatStep("onMessage", message.text, <<>>)
    /\ UNCHANGED << Config, Auth, Hotkeys, upstream, foldersInSync, syncThreadsInProgress, threads, bucket, calls,
                    listed, Chat >>

\* init.method of a use-chat-request that is not 'POST' (the comparison is strict)
OtherMethods == {"GET", "post", Undefined}

\* the step of a use-chat-request whose init.method is the method
UseChatRequestWith(method) == "cf_agent_use_chat_request " \o method

\* a slip: no test of init.method, the request is handled as a POST
UseChatRequestOtherProceeds(id, method) ==
    /\ chats[id].pc = "idle"
    /\ chats' = [chats EXCEPT ![id] = [@ EXCEPT !.pc = "persist"]]
    /\ persistMessages(RequestMessages(id))
    /\ step' = ChatStep(UseChatRequestWith(method), id, << Broadcast("cf_agent_chat_messages", id) >>)
    /\ UNCHANGED << Config, Auth, Hotkeys, upstream, foldersInSync, syncThreadsInProgress, threads, bucket, calls,
                    listed, chatMessageAbortControllers, sent >>

\* use-chat-request whose init.method is not 'POST': break out of the switch,
\* onMessage returns
UseChatRequestOther(id, method) ==
    /\ step' = ChatStep(UseChatRequestWith(method), id, <<>>)
    /\ UNCHANGED << Config, Auth, Hotkeys, upstream, foldersInSync, syncThreadsInProgress, threads, bucket, calls,
                    listed, Chat >>

NextChat ==
    \/ \E id \in ChatIds :
          \/ UseChatRequest(id)
          \/ ChatMessagesPersisted(id)
          \/ ReplyChunk(id)
          \/ GenerationFinishes(id)
          \/ FinishPersisted(id)
          \/ GenerationFails(id)
          \/ ReplyEnds(id)
          \/ ChatRequestCancel(id)
          \/ ChatMessages(id)
    \/ \E connection \in Connections : ChatClear(connection)
    \/ \E message \in WSMessages : OnMessageIgnored(message)
    \/ \E id \in ChatIds, method \in OtherMethods : UseChatRequestOther(id, method)

SpecChat == Init /\ [][NextChat]_vars

(***************************************************************************)
(* setupAuth(connectionId) and onConnect, which calls setupAuth(this.name). *)
(* A call awaits the connection lookup once; the syncThreads calls it      *)
(* makes are handed to waitUntil and run on their own as the calls of      *)
(* syncThreads(folder) above.  A syncThreads call changes nothing before   *)
(* its first await, so starting it only adds it to syncsStarted.           *)
(***************************************************************************)
\* the folders setupAuth starts a sync for, in the order of the calls
SyncedFolders == << "inbox", "sent", "spam", "archive" >>

\* the arguments setupAuth is called with
ConnectionIds == {"general", "conn-1", "conn-2"}

LookupError == "findFirst failed"

\* this.syncThreads(folder) as setupAuth calls it: the folder, and whether
\* this.driver was set, without which the call throws 'No driver available'
SyncStarted(folder, established) == [folder |-> folder, driver |-> established]

\* the four calls of one setupAuth
StartSyncs(established) ==
    [k \in 1 .. Len(SyncedFolders) |-> SyncStarted(SyncedFolders[k], established)]

\* connectionId === 'general': return
SetupAuthGeneral(a, op, connectionId) ==
    /\ setups[a].pc = "idle"
    /\ connectionId = "general"
    /\ step' = StepOf(a, op, connectionId, Return(0, TRUE, ""), NoRet, <<>>)
    /\ UNCHANGED << Config, Auth, Hotkeys, upstream, foldersInSync, syncThreadsInProgress, threads,
                    bucket, calls, listed, Chat >>

\* this.driver is set: the if is skipped
SetupAuthHasDriver(a, op, connectionId) ==
    /\ setups[a].pc = "idle"
    /\ connectionId # "general"
    /\ driver
    /\ step' = StepOf(a, op, connectionId, Return(0, TRUE, ""), NoRet, <<>>)
    /\ UNCHANGED << Config, Auth, Hotkeys, upstream, foldersInSync, syncThreadsInProgress, threads,
                    bucket, calls, listed, Chat >>

\* no driver: createDb, and the call awaits db.query.connection.findFirst
SetupAuthLookup(a, op, connectionId) ==
    /\ setups[a].pc = "idle"
    /\ connectionId # "general"
    /\ ~driver
    /\ setups' = [setups EXCEPT ![a] = [pc |-> "lookup", connectionId |-> connectionId]]
    /\ step' = StepOf(a, op, connectionId, NoRet, NoRet, << Fx("findFirst", connectionId) >>)
    /\ UNCHANGED << Config, syncsStarted, Hotkeys, upstream, foldersInSync, syncThreadsInProgress,
                    threads, bucket, calls, listed, Chat >>

\* setupAuth(connectionId)
SetupAuth(a, op, connectionId) ==
    \/ SetupAuthGeneral(a, op, connectionId)
    \/ SetupAuthHasDriver(a, op, connectionId)
    \/ SetupAuthLookup(a, op, connectionId)

\* onConnect(): await this.setupAuth(this.name)
OnConnect(a) == SetupAuth(a, "onConnect", name)

\* findFirst resolves, with a connection (found) or with undefined: the driver
\* is set if there is a connection, conn.end() and the four syncThreads calls
\* are handed to waitUntil
LookupResolves(a, found) ==
    /\ setups[a].pc = "lookup"
    /\ Len(syncsStarted) < MaxStarts * Len(SyncedFolders)
    /\ driver' = (found \/ driver)
    /\ syncsStarted' = syncsStarted \o StartSyncs(driver')
    /\ setups' = [setups EXCEPT ![a] = IdleSetup]
    /\ step' = StepOf(a, "setupAuth", setups[a].connectionId, Return(0, TRUE, ""), NoRet,
                      << Fx("conn.end", setups[a].connectionId) >>
                      \o [k \in 1 .. Len(SyncedFolders) |-> Fx("syncThreads", SyncedFolders[k])])
    /\ UNCHANGED << name, shouldLoop, Hotkeys, upstream, foldersInSync,
                    syncThreadsInProgress, threads, bucket, calls, listed, Chat >>

\* findFirst rejects: so does setupAuth
LookupRejects(a) ==
    /\ setups[a].pc = "lookup"
    /\ setups' = [setups EXCEPT ![a] = IdleSetup]
    /\ step' = StepOf(a, "setupAuth", setups[a].connectionId, Throw(LookupError), NoRet, <<>>)
    /\ UNCHANGED << Config, syncsStarted, Hotkeys, upstream, foldersInSync, syncThreadsInProgress,
                    threads, bucket, calls, listed, Chat >>

\* the agent after construction: this.driver is null
InitAuth ==
    /\ ChatInit
    /\ NoHotkeys
    /\ name \in {"general", "conn-1"}
    /\ driver = FALSE
    /\ shouldLoop \in BOOLEAN
    /\ foldersInSync = {}
    /\ syncThreadsInProgress = {}
    /\ threads = EmptyTable
    /\ bucket = [id \in ThreadIds |-> NoBlob]
    /\ calls = [c \in Calls |-> IdleCall]
    /\ step = NoStep
    /\ listed = NoListing

NextAuth ==
    \/ \E a \in Setups : OnConnect(a)
    \/ \E a \in Setups, connectionId \in ConnectionIds : SetupAuth(a, "setupAuth", connectionId)
    \/ \E a \in Setups, found \in BOOLEAN : LookupResolves(a, found)
    \/ \E a \in Setups : LookupRejects(a)

SpecAuth == InitAuth /\ [][NextAuth]_vars

(***************************************************************************)
(* The hotkeys of the mail list (MailListHotkeys).  A handler runs to its  *)
(* end in one step: it invokes mutations and shows toasts, or sets the     *)
(* mail state.  What a mutation's promise does later (the toast's success  *)
(* callback refetches the threads) arrives as ThreadsRefetched.            *)
(***************************************************************************)
\* an item of the thread list
ItemOf(id) == [id |-> id]

\* the lists useThreads can hold
ItemLists ==
    { <<>>, << ItemOf("t1") >>, << ItemOf("t1"), ItemOf("t2") >>,
      << ItemOf("t2"), ItemOf("t3"), ItemOf("t1") >> }

\* the bulk selections the mail list can have made when a hotkey is pressed
Selections == { <<>>, << "t1" >>, << "t2", "t3" >> }

\* mutateAsync({ ids }) of the mutation
Invoke(mutation, ids) == [mutation |-> mutation, ids |-> ids]

\* the step of a hotkey handler
HotkeyStep(handler, effects) == StepOf(0, handler, "", Return(0, TRUE, ""), NoRet, effects)

\* the 'emailHover' event: hoveredEmailId.current = event.detail.id
emailHover(id) ==
    /\ hoveredEmailId' = id
    /\ step' = HotkeyStep("emailHover", <<>>)
    /\ UNCHANGED << Config, Auth, mail, items, invoked, upstream, foldersInSync,
                    syncThreadsInProgress, threads, bucket, calls, listed, Chat >>

\* useThreads delivers another list
ThreadsRefetched(list) ==
    /\ items # list
    /\ items' = list
    /\ step' = HotkeyStep("useThreads", <<>>)
    /\ UNCHANGED << Config, Auth, mail, hoveredEmailId, invoked, upstream, foldersInSync,
                    syncThreadsInProgress, threads, bucket, calls, listed, Chat >>

\* a slip: no test of the selection, every press selects all items
BulkSelectedAlways(m, list) ==
    IF Len(list) > 0
    THEN [m EXCEPT !.bulkSelected = [k \in 1 .. Len(list) |-> list[k].id]]
    ELSE m

\* the mail state selectAll sets: the empty selection if there is a selection,
\* else the ids of the items if there are items; else it is not set
BulkSelected(m, list) ==
    IF Len(m.bulkSelected) > 0 THEN [m EXCEPT !.bulkSelected = <<>>]
    ELSE IF Len(list) > 0
    THEN [m EXCEPT !.bulkSelected = [k \in 1 .. Len(list) |-> list[k].id]]
    ELSE m

\* selectAll
selectAll ==
    /\ mail' = BulkSelected(mail, items)
    /\ invoked' = <<>>
    /\ step' = HotkeyStep("selectAll",
                          IF Len(mail.bulkSelected) = 0 /\ Len(items) = 0
                          THEN << Fx("toast.info", "common.mail.noEmailsToSelect") >>
                          ELSE <<>>)
    /\ UNCHANGED << Config, Auth, items, hoveredEmailId, upstream, foldersInSync,
                    syncThreadsInProgress, threads, bucket, calls, listed, Chat >>

\* exitSelectionMode
exitSelectionMode ==
    /\ mail' = [mail EXCEPT !.bulkSelected = <<>>]
    /\ invoked' = <<>>
    /\ step' = HotkeyStep("exitSelectionMode", <<>>)
    /\ UNCHANGED << Config, Auth, items, hoveredEmailId, upstream, foldersInSync,
                    syncThreadsInProgress, threads, bucket, calls, listed, Chat >>

\* the body shared by markAsRead, markAsUnread and archiveEmail: the hovered
\* email if there is one (onHovered), else the bulk selection (onSelected),
\* else a toast
MarkHandler(handler, onHovered, onSelected, done) ==
    /\ invoked' =
          IF ~Falsy(hoveredEmailId) THEN << Invoke(onHovered, << hoveredEmailId >>) >>
          ELSE IF Len(mail.bulkSelected) = 0 THEN <<>>
          ELSE << Invoke(onSelected, mail.bulkSelected) >>
    /\ step' = HotkeyStep(handler,
                          IF Falsy(hoveredEmailId) /\ Len(mail.bulkSelected) = 0
                          THEN << Fx("toast.info", "common.mail.noEmailsToSelect") >>
                          ELSE << Fx("toast.promise", done) >>)
    /\ UNCHANGED << Config, Auth, mail, items, hoveredEmailId, upstream, foldersInSync,
                    syncThreadsInProgress, threads, bucket, calls, listed, Chat >>

\* markAsRead
markAsRead ==
    MarkHandler("markAsRead", "markAsRead", "markAsRead", "common.mail.markedAsRead")

\* markAsUnread
markAsUnread ==
    MarkHandler("markAsUnread", "markAsUnread", "markAsUnread", "common.mail.markedAsUnread")

\* archiveEmail: bulkArchive for the hovered email, markAsUnreadAction for the
\* bulk selection
archiveEmail ==
    MarkHandler("archiveEmail", "bulkArchive", "markAsUnread", "common.mail.archived")

\* the component is mounted over the mail state the other components have left
InitHotkeys ==
    /\ ChatInit
    /\ name = "conn-1"
    /\ driver = TRUE
    /\ shouldLoop = TRUE
    /\ foldersInSync = {}
    /\ syncThreadsInProgress = {}
    /\ threads = EmptyTable
    /\ bucket = [id \in ThreadIds |-> NoBlob]
    /\ calls = [c \in Calls |-> IdleCall]
    /\ step = NoStep
    /\ listed = NoListing
    /\ mail \in { MailOf(selected, bulkSelected) :
                     selected \in {Null, "t1"}, bulkSelected \in Selections }
    /\ items \in ItemLists
    /\ hoveredEmailId = Null
    /\ invoked = <<>>

NextHotkeys ==
    \/ \E id \in ThreadIds \cup {Null} : emailHover(id)
    \/ \E list \in ItemLists : ThreadsRefetched(list)
    \/ selectAll
    \/ exitSelectionMode
    \/ markAsRead
    \/ markAsUnread
    \/ archiveEmail

SpecHotkeys == InitHotkeys /\ [][NextHotkeys]_vars

(***************************************************************************)
(* Properties of the sync guards.                                          *)
(***************************************************************************)
\* call c is inside the paginated loop of syncThreads(folder)
InLoop(c, folder) ==
    /\ calls[c].op = "syncThreads"
    /\ calls[c].folder = folder
    /\ calls[c].pc \in {"list", "loop", "get", "put", "upsert"}

\* call c is inside the body of syncThread(threadId): fetch, blob write, upsert
InBody(c, threadId) ==
    /\ calls[c].pc \in {"get", "put", "upsert"}
    /\ calls[c].tid = threadId

\* C1: for every folder, at most one syncThreads loop is active at any time, under
\* every interleaving of concurrent syncThreads calls for that folder.
C1_OneLoopPerFolder ==
    \A folder \in Folders : Cardinality({ c \in Calls : InLoop(c, folder) }) <= 1

\* at most one call is inside the body of syncThread for a thread id
C2_OneBodyPerThread ==
    \A threadId \in ThreadIds : Cardinality({ c \in Calls : InBody(c, threadId) }) <= 1

\* the step of a syncThread call for a thread id whose sync is in progress
C2_BusySyncThreadReturns ==
    \A c \in Calls : \A threadId \in ThreadIds :
        /\ \E o \in Calls : InBody(o, threadId)
        /\ step'.c = c
        /\ \/ calls[c].pc = "idle" /\ step'.op = "syncThread" /\ step'.arg = threadId
           \/ /\ calls[c].pc = "loop"
              /\ calls[c].i <= Len(calls[c].resThreads)
              /\ calls[c].resThreads[calls[c].i] = threadId
        => /\ step'.fx = <<>>
           /\ IF calls[c].pc = "idle"
              THEN step'.ret = Return(0, FALSE, Undefined) /\ calls'[c] = IdleCall
              ELSE step'.inner = Return(0, FALSE, Undefined) /\ calls'[c].pc = "loop"
           /\ UNCHANGED << threads, bucket, syncThreadsInProgress >>

\* C2: for every thread id at most one syncThread body is active at any time, and a
\* syncThread call made while a sync of the same thread is in progress (directly, or
\* from a syncThreads loop) returns undefined at once: no upstream request, no write
\* to the blob store or to the threads table.
C2_SingleFlightSyncThread == []C2_OneBodyPerThread /\ [][C2_BusySyncThreadReturns]_vars

C2_Witness ==
    /\ step.op = "syncThread"
    /\ step.ret = Return(0, FALSE, Undefined)
    /\ \E o \in Calls : o # step.c /\ InBody(o, step.arg) /\ calls[o].pc = "put"

\* the step of a syncThreads call for a folder that is marked busy
C3_BusySyncThreadsAction ==
    \A c \in Calls : \A folder \in Folders :
        /\ calls[c].pc = "idle"
        /\ folder \in foldersInSync
        /\ step'.c = c
        /\ step'.op = "syncThreads"
        /\ step'.arg = folder
        => /\ step'.ret = Return(0, FALSE, "Sync already in progress")
           /\ step'.fx = <<>>
           /\ UNCHANGED << threads, bucket, foldersInSync, syncThreadsInProgress, calls >>

\* C3: a syncThreads call for a folder that is marked busy returns synced = 0, asks
\* the upstream nothing, changes no row, blob or marker, and broadcasts nothing.
C3_BusySyncThreadsIsNoOp == [][C3_BusySyncThreadsAction]_vars

C3_Witness ==
    /\ step.op = "syncThreads"
    /\ step.ret.message = "Sync already in progress"
    /\ step.arg \in foldersInSync
    /\ \E o \in Calls : o # step.c /\ InLoop(o, step.arg)

\* every marked key has a running call that marked it
C4_MarkersHaveHolders ==
    /\ \A folder \in foldersInSync : \E c \in Calls : InLoop(c, folder)
    /\ \A threadId \in syncThreadsInProgress : \E c \in Calls : InBody(c, threadId)
    /\ (\A c \in Calls : calls[c].pc = "idle")
          => foldersInSync = {} /\ syncThreadsInProgress = {}

\* the step in which a call leaves its loop or body leaves the key unmarked
C4_LeavingClears ==
    \A c \in Calls :
        /\ \A folder \in Folders :
              InLoop(c, folder) /\ ~InLoop(c, folder)' => folder \notin foldersInSync'
        /\ \A threadId \in ThreadIds :
              InBody(c, threadId) /\ ~InBody(c, threadId)'
                 => threadId \notin syncThreadsInProgress'

\* C4: a marker is set only while a call that set it is still running, and the step
\* in which such a call leaves (return or throw) leaves the key unmarked; so when
\* no call is running, no key is marked.
C4_GuardsReleasedOnEveryExit == []C4_MarkersHaveHolders /\ [][C4_LeavingClears]_vars

C4_Witness ==
    /\ step.op = "syncThread"
    /\ step.ret = Return(0, FALSE, "No latest message")
    /\ step.arg \notin syncThreadsInProgress
    /\ \A c \in Calls : calls[c].pc = "idle"

\* C5: when the page fetch of a syncThreads loop fails, the call throws to its
\* caller, and the folder is unmarked when the caller sees the error.
C5_ListFailurePropagates ==
    step.fx # <<>> /\ step.fx[1].t = "driver.list rejected"
       => /\ step.ret = Throw(ListError)
          /\ step.arg \notin foldersInSync
          /\ calls[step.c] = IdleCall

C5_Witness ==
    /\ step.op = "syncThreads"
    /\ step.ret = Throw(ListError)
    /\ step.fx[1] = Fx("driver.list rejected", step.arg)

\* the steps of a syncThreads loop after it has called syncThread for a thread
C6_LoopGoesOn ==
    \A c \in Calls :
        /\ ( /\ calls[c].op = "syncThreads"
             /\ calls[c].pc \in {"get", "put", "upsert"}
             /\ step'.c = c )
           => \/ calls'[c].pc \in {"put", "upsert"} /\ calls'[c].i = calls[c].i
              \/ /\ calls'[c].pc = "loop"
                 /\ calls'[c].i = calls[c].i + 1
                 /\ calls'[c].resThreads = calls[c].resThreads
                 /\ calls'[c].nextPageToken = calls[c].nextPageToken
                 /\ step'.ret = NoRet
                 /\ UNCHANGED foldersInSync
        /\ ( /\ calls[c].pc = "loop"
             /\ calls[c].i > Len(calls[c].resThreads)
             /\ step'.c = c )
           => IF HasMore(calls[c].nextPageToken)
              THEN calls'[c].pc = "list"
              ELSE step'.ret.kind = "return"

\* what syncThreads throws is the missing driver or the failed page fetch
C6_NoThreadErrorThrown ==
    step.op = "syncThreads" /\ step.ret.kind = "throw"
       => step.ret.message \in {NoDriverError, ListError}

\* C6: whatever the outcome of a syncThread awaited by the syncThreads loop, the
\* loop goes on with the next thread of the page and keeps its marker; at the end
\* of a page it fetches the next page if there is one and returns otherwise; and
\* syncThreads never throws a thread's error.
C6_ThreadFailureIsIsolated == []C6_NoThreadErrorThrown /\ [][C6_LoopGoesOn]_vars

C6_Witness ==
    /\ step.op = "syncThreads"
    /\ step.inner.kind = "throw"
    /\ calls[step.c].pc = "loop"
    /\ calls[step.c].i <= Len(calls[step.c].resThreads)
    /\ HasMore(calls[step.c].nextPageToken)

\* C7: a syncThreads loop fetches a further page only while the continuation token
\* is non-empty (not null, undefined or '') and the loop-enable flag is set.
C7_FurtherPageOnlyWithToken ==
    \A c \in Calls :
        calls[c].pageCount > 1 => shouldLoop /\ ~Falsy(calls[c].pageToken)

\* the step after getThreadCount() of a call that counted maxCount rows or more,
\* whatever the loop-enable flag (always) or when it is false
C8_SkipAction(always) ==
    \A c \in Calls :
        /\ calls[c].pc = "count"
        /\ calls[c].threadCount >= maxCount
        /\ always \/ ~shouldLoop
        /\ step'.c = c
        => /\ step'.ret = Return(0, FALSE, "Threads already synced")
           /\ step'.fx = <<>>
           /\ calls'[c] = IdleCall
           /\ UNCHANGED << foldersInSync, syncThreadsInProgress, threads, bucket >>

\* C8 as stated: when the row count measured by syncThreads meets maxCount, the call
\* sets no marker and fetches nothing.
C8_Original == [][C8_SkipAction(TRUE)]_vars

\* C8, amended: when the row count measured by syncThreads meets maxCount and the
\* loop-enable flag is false, the call sets no marker and fetches nothing.
C8_NoLoopWhenSyncedAndNotLooping == [][C8_SkipAction(FALSE)]_vars

C8_Witness ==
    /\ step.op = "syncThreads"
    /\ step.ret = Return(0, FALSE, "Threads already synced")
    /\ ThreadCountOf(threads) >= maxCount
    /\ step.arg \notin foldersInSync

(***************************************************************************)
(* Properties of the cache listing.                                        *)
(***************************************************************************)
\* C9: a listing called with a non-empty cursor returns no row whose
\* latest_received_on is greater than or equal to the cursor.
C9_NoRowAtOrAfterCursor ==
    listed.called /\ Truthy(listed.pageToken)
       => \A k \in 1 .. Len(listed.rows) :
             /\ listed.rows[k].latest_received_on # listed.pageToken.text
             /\ TextLess(listed.rows[k].latest_received_on, listed.pageToken.text)

C9_Witness ==
    /\ listed.called
    /\ Truthy(listed.pageToken)
    /\ ~Falsy(listed.folder)
    /\ Len(listed.labelIds) = 2
    /\ Len(listed.rows) > 0
    /\ \E id \in ThreadIds :
          /\ threads[id].present
          /\ ~TextLess(threads[id].latest_received_on, listed.pageToken.text)

\* C10: the next cursor of a listing is the latest_received_on of the last row of
\* the page when the page holds exactly maxResults rows (and so has a last row),
\* and null when the page holds fewer rows than maxResults.
C10_NextCursor ==
    listed.called
       => /\ Len(listed.rows) = listed.maxResults /\ Len(listed.rows) > 0
             => listed.nextPageToken
                   = Text(listed.rows[Len(listed.rows)].latest_received_on)
          /\ Len(listed.rows) < listed.maxResults => listed.nextPageToken = NoText

C10_Witness ==
    /\ listed.called
    /\ listed.maxResults = 2
    /\ Len(listed.rows) = 2
    /\ listed.nextPageToken = Text(listed.rows[2].latest_received_on)
    /\ ThreadCountOf(threads) = 3

\* the free text a listing was called with
FreeText(l) == IF l.op = "getThreadsFromDB" THEN l.q ELSE l.query

\* the rows a listing is to select from: those that pass every filter given
Matching(l) ==
    { id \in ThreadIds :
        /\ threads[id].present
        /\ ~Falsy(l.folder) => HasLabel(threads[id], ToUpperCase(l.folder))
        /\ Len(l.labelIds) > 0
              => \E k \in 1 .. Len(l.labelIds) : HasLabel(threads[id], l.labelIds[k])
        /\ ~Falsy(FreeText(l))
              => \/ Like(threads[id].latest_subject, FreeText(l))
                 \/ Like(threads[id].latest_sender, FreeText(l))
        /\ Truthy(l.pageToken)
              => BeforeCursor(threads[id].latest_received_on, l.pageToken.text) }

\* the pages that hold rows of the given ids, newest first, up to the limit
PagesOf(ids, maxResults) ==
    { Limit([k \in 1 .. Len(o) |->
                [id |-> o[k], latest_received_on |-> threads[o[k]].latest_received_on]],
            maxResults) : o \in DescendingOrders(threads, ids) }

\* C11: a listing called with two or more labelIds returns, newest first and up to
\* the limit, exactly the rows that hold at least one of the labels (and pass the
\* folder and the cursor if given).
C11_AnyOfTheLabels ==
    listed.called /\ Len(listed.labelIds) >= 2 /\ Falsy(FreeText(listed))
       => listed.rows \in PagesOf(Matching(listed), listed.maxResults)

\* C12: a listing called with a free text, as q or as the query of list and
\* listThreads, returns only rows whose latest subject or latest sender contains
\* the text.
C12_OnlyRowsContainingText ==
    listed.called /\ ~Falsy(FreeText(listed))
       => \A k \in 1 .. Len(listed.rows) :
             \/ Like(threads[listed.rows[k].id].latest_subject, FreeText(listed))
             \/ Like(threads[listed.rows[k].id].latest_sender, FreeText(listed))

\* C13: a listing called with a folder returns only rows that hold the upper-cased
\* folder name as a label, whatever the other parameters, and returns every such
\* row that passes the other filters, up to the limit.
C13_OnlyAndAllOfFolder ==
    listed.called /\ ~Falsy(listed.folder)
       => /\ \A k \in 1 .. Len(listed.rows) :
                HasLabel(threads[listed.rows[k].id], ToUpperCase(listed.folder))
          /\ listed.rows \in PagesOf(Matching(listed), listed.maxResults)

(***************************************************************************)
(* Properties of the chat protocol.                                        *)
(***************************************************************************)
\* an id the agent has no entry for: not yet requested, or completed (onFinish
\* has removed the entry)
C15_UnknownOrCompletedHasNoEntry ==
    \A id \in ChatIds :
        chats[id].pc \in {"idle", "persist"} \/ chats[id].gen = "finished"
           => ~HasAbortController(id)

C15_CancelStep ==
    \A id \in ChatIds :
        step'.op = "cf_agent_chat_request_cancel" /\ step'.arg = id
           => /\ step'.ret.kind = "return"
              /\ step'.fx = <<>>
              /\ sent' = sent
              /\ chats' = chats
              /\ \A other \in ChatIds \ {id} :
                    chatMessageAbortControllers'[other] = chatMessageAbortControllers[other]
              /\ chatMessageAbortControllers'[id].present = HasAbortController(id)
              /\ ~HasAbortController(id)
                    => chatMessageAbortControllers' = chatMessageAbortControllers
              /\ chatMessageAbortControllers[id].aborted
                    => chatMessageAbortControllers' = chatMessageAbortControllers

\* C15: a chat-request-cancel for an id that is unknown or whose request has
\* completed raises no error, sends no message and leaves the map of pending
\* requests and every request unchanged; a second cancel of an id changes nothing
\* the first did not.
C15_CancelUnknownIsNoOp ==
    /\ []C15_UnknownOrCompletedHasNoEntry
    /\ [][C15_CancelStep]_vars

C15_Witness ==
    /\ step.op = "cf_agent_chat_request_cancel"
    /\ chats[step.arg].gen = "finished"
    /\ chats[step.arg].pc = "done"
    /\ \E other \in ChatIds : HasAbortController(other) /\ chats[other].pc = "stream"

\* C16: once a chat-request-cancel for an in-flight request is handled, no further
\* done: false chunk of that request is sent.
C16_NoChunkAfterCancel ==
    [][\A id \in ChatIds :
          HasAbortController(id) /\ chatMessageAbortControllers[id].aborted
             => ~ /\ Len(sent'[id]) > Len(sent[id])
                  /\ ~sent'[id][Len(sent'[id])].done]_vars

\* the terminator is sent and no onFinish is still running
C17_Completed(id) == chats[id].pc = "done" /\ chats[id].gen # "persisting"

\* C17: the map of pending requests holds no entry for a request that has
\* completed (also when it ended in an error or was made on the 'general' agent)
\* nor for one that was cancelled.
C17_NoEntryAfterCompletionOrCancel ==
    \A id \in ChatIds :
        HasAbortController(id)
           => /\ ~C17_Completed(id)
              /\ ~chatMessageAbortControllers[id].aborted

\* C18: the use-chat-response messages of a request are done: false chunks followed,
\* once reply has ended, by exactly one done: true terminator with an empty body;
\* nothing follows the terminator.
C18_ChunksThenOneTerminator ==
    \A id \in ChatIds :
        /\ \A k \in 1 .. Len(sent[id]) :
              sent[id][k].done => k = Len(sent[id]) /\ sent[id][k].body = ""
        /\ chats[id].pc = "done" <=> Len(sent[id]) > 0 /\ sent[id][Len(sent[id])].done

C18_Witness ==
    \E id \in ChatIds :
        /\ chats[id].pc = "done"
        /\ Len(sent[id]) = MaxChunks + 1
        /\ ~sent[id][1].done

(***************************************************************************)
(* Properties of the cache reader and the mail operations.                 *)
(***************************************************************************)
\* C14: a getThread that misses the cache runs exactly one sync of the thread
\* before its one re-read, also when the thread is being synced at the time of the
\* miss; it never syncs twice.
C14_OneSyncThenReread ==
    \A c \in Calls :
        calls[c].op \in GetOperations
           => /\ calls[c].syncs <= 1
              /\ calls[c].pc = "reread" => calls[c].syncs = 1

\* the operations C19 names
C19_Operations == MailOperations \cup {"syncThreads"}

C19_NoDriverStep ==
    ~driver /\ step' # step /\ step'.op \in C19_Operations
       => /\ step'.ret = Throw(NoDriverError)
          /\ step'.fx = <<>>
          /\ UNCHANGED << threads, bucket, foldersInSync, syncThreadsInProgress, calls,
                          listed, Chat >>

\* C19: every mail operation called without a driver fails with 'No driver
\* available', makes no upstream call and changes neither the cache nor a guard
\* marker.
C19_NoDriverNoEffect == [][C19_NoDriverStep]_vars

C19_Witness ==
    /\ ~driver
    /\ step.op = "modifyLabels"
    /\ step.ret = Throw(NoDriverError)
    /\ step.fx = <<>>

\* what searchThreads is to return, given how its two effects ended
C20_Expected(call) ==
    IF call.rag.state = "resolved" /\ Len(call.rag.ids) > 0 THEN call.rag.ids
    ELSE IF call.raw.state = "resolved" THEN call.raw.ids
    ELSE <<>>

C20_SearchStep ==
    \A c \in Calls :
        calls[c].pc = "search" /\ calls'[c] # calls[c]
           => \/ /\ calls'[c].pc = "search"
                 /\ step'.ret = NoRet
              \/ /\ calls'[c] = IdleCall
                 /\ calls[c].rag # Pending
                 /\ calls[c].raw # Pending
                 /\ step'.ret.kind = "return"
                 /\ step'.ret.threadIds = C20_Expected(calls[c])

\* C20: with a driver, a failure of one effect of searchThreads leaves the result
\* of the other, and searchThreads does not fail when one or both fail: with both
\* failed it returns an empty list of ids.
C20_BranchFailuresAreIsolated ==
    /\ [](driver /\ step.op = "searchThreads" => step.ret.kind # "throw")
    /\ [][C20_SearchStep]_vars

C20_Witness ==
    /\ step.op = "searchThreads"
    /\ step.ret.kind = "return"
    /\ step.ret.threadIds = <<>>
    /\ step.fx = << Fx("rag", "rejected"), Fx("raw", "rejected") >>

(***************************************************************************)
(* The cache row and the blob of a thread                                  *)
(***************************************************************************)
\* the step ends a syncThread (called directly, by the loop or by a cache miss):
\* the result it settles with
SyncThreadResult(s) == IF s.op = "syncThread" THEN s.ret ELSE s.inner

\* the step of a syncThread that fails: the rejection is thrown to the caller or
\* caught by the loop
C21_FailedStep ==
    SyncThreadResult(step').kind = "throw"
    /\ SyncThreadResult(step').message \in {GetError, DateError, PutError}
    => threads' = threads

\* a step that changes the table is the upsert of one call: it replaces the one
\* row of the call's thread by a row with every column set
C21_WholeRowStep ==
    threads' # threads
    => \E c \in Calls : \E d \in DriverGet(calls[c].tid) :
          /\ calls[c].pc = "upsert"
          /\ calls[c].threadData = d
          /\ threads'[calls[c].tid].present
          /\ threads'[calls[c].tid].thread_id = calls[c].tid
          /\ threads'[calls[c].tid].latest_sender = d.sender
          /\ threads'[calls[c].tid].latest_subject = d.subject
          /\ threads'[calls[c].tid].latest_label_ids = d.tags
          /\ threads'[calls[c].tid].latest_received_on # <<>>
          /\ \A id \in ThreadIds \ {calls[c].tid} : threads'[id] = threads[id]
          /\ SyncThreadResult(step').kind = "return"

\* C21: a failed syncThread never leaves a partial or changed cache row: when the
\* upstream fetch fails, the received date is invalid or the blob write fails, the
\* threads table is as it was; a row is only ever written whole, by one upsert.
C21_FailedSyncLeavesTable == [][C21_FailedStep /\ C21_WholeRowStep]_vars

\* a blob write has failed for a thread that has a row, while another row exists
C21_Witness ==
    /\ step.op = "syncThread"
    /\ step.ret = Throw(PutError)
    /\ threads[step.arg].present
    /\ ThreadCountOf(threads) >= 2

\* the result of a syncThread that ends in this step is success for thread id T
C22_SuccessStep ==
    \A c \in Calls :
        /\ calls[c].pc \in {"get", "put", "upsert"}
        /\ calls'[c].pc \notin {"get", "put", "upsert"}
        /\ SyncThreadResult(step').kind = "return"
        /\ SyncThreadResult(step').success
        => LET T == calls[c].tid
               d == calls[c].threadData
           IN  /\ d \in DriverGet(T)
               /\ bucket[T].body = d
               /\ threads'[T] =
                     [present |-> TRUE, thread_id |-> T, provider_id |-> "google",
                      latest_sender |-> d.sender,
                      latest_received_on |->
                         ToISOString(d.receivedOn.local - d.receivedOn.offset),
                      latest_subject |-> d.subject,
                      latest_label_ids |-> d.tags]

\* the result of a syncThread that ends in this step is success = false for a
\* thread without latest message
C22_NoLatestStep ==
    /\ SyncThreadResult(step').kind = "return"
    /\ SyncThreadResult(step').message = "No latest message"
    => /\ ~SyncThreadResult(step').success
       /\ threads' = threads
       /\ bucket' = bucket

\* C22: after every syncThread that returns success for thread id T, the threads
\* table holds the one row of T (id is the primary key) whose latest sender,
\* ISO-normalised latest received date, latest subject and latest label ids are
\* those of the thread data just fetched; a syncThread whose fetched thread has no
\* latest message returns success = false and writes neither row nor blob.
C22_RowIsTheFetchedThread == [][C22_SuccessStep /\ C22_NoLatestStep]_vars

\* a sync of t1 has returned success for the thread whose date comes with a zone
\* offset
C22_Witness ==
    /\ step.op = "syncThread"
    /\ step.ret = Return(0, TRUE, "")
    /\ step.arg = "t1"
    /\ threads["t1"].latest_sender = "alice"
    /\ threads["t1"].latest_received_on = ToISOString(10)
    /\ bucket["t1"].body = DataA

(***************************************************************************)
(* chat-clear and messages that onMessage ignores                          *)
(***************************************************************************)
\* the step's chat-clear broadcast goes to the connection
C29_Reaches(s, connection) ==
    \E k \in 1 .. Len(s.fx) :
        /\ s.fx[k].t = "broadcast cf_agent_chat_clear without"
        /\ s.fx[k].a # connection

\* the step of a chat-clear message from the connection step'.arg
C29_ClearStep ==
    step'.op = "cf_agent_chat_clear"
    => /\ \A id \in ChatIds :
             HasAbortController(id)
                => \E k \in 1 .. Len(step'.fx) : step'.fx[k] = Fx("controller.abort", id)
       /\ \A id \in ChatIds : ~chatMessageAbortControllers'[id].present
       /\ cf_ai_chat_agent_messages' = <<>>
       /\ messages' = <<>>
       /\ \A connection \in Connections :
             C29_Reaches(step', connection) <=> connection # step'.arg

\* C29: a chat-clear message aborts every pending chat request's cancellation
\* handle, leaves the pending-request map empty, empties the stored and in-memory
\* chat messages, and broadcasts a chat-clear message to every connection except
\* the sender.
C29_ChatClearClearsAll == [][C29_ClearStep]_vars

\* a chat-clear has been handled while both requests were streaming
C29_Witness ==
    /\ step.op = "cf_agent_chat_clear"
    /\ Len(step.fx) = 4
    /\ \A id \in ChatIds : chats[id].pc = "stream" /\ chats[id].gen = "running"
    /\ messages = <<>>

\* the step of onMessage for a message that is no string or no JSON
C30_IgnoredStep ==
    step'.op = "onMessage"
    => /\ step'.ret.kind = "return"
       /\ step'.fx = <<>>
       /\ UNCHANGED << messages, cf_ai_chat_agent_messages, chatMessageAbortControllers,
                       chats, sent, foldersInSync, syncThreadsInProgress, threads,
                       bucket, calls, listed >>

\* C30: an incoming WebSocket message that is not a string, or is a string that is
\* not valid JSON, is ignored: onMessage returns without error, sends nothing, and
\* changes no agent state (messages, pending-request map, guards, cache).
C30_InvalidMessageIsIgnored == [][C30_IgnoredStep]_vars

\* a string that is no JSON has been ignored while a request was pending and
\* messages were stored
C30_Witness ==
    /\ step.op = "onMessage"
    /\ step.arg = "hello"
    /\ messages # <<>>
    /\ \E id \in ChatIds : HasAbortController(id) /\ chats[id].gen = "running"

(***************************************************************************)
(* Write-through after a label modification                                *)
(***************************************************************************)
\* C23: when AgentRpcDO.markThreadsRead, markThreadsUnread, markAsRead,
\* markAsUnread or modifyLabels returns successfully, the cache row of the
\* affected thread holds the labels the upstream reports after the modification,
\* also when a sync of the thread was in progress when the modification was
\* applied.  (Stated for a thread that has a row and a latest message, and for
\* the call whose modification is the latest the upstream has applied.)
C23_WriteThrough ==
    /\ step.op \in RpcOperations
    /\ step.ret.kind = "return"
    /\ upstream[step.arg] \in ModificationsOf(step.op)
    /\ step.inner.message # "No latest message"
    /\ threads[step.arg].present
    => \E d \in UpstreamGet(step.arg) :
          d.latest /\ threads[step.arg].latest_label_ids = d.tags

\* each row has its blob, stored under the key of the thread
C24_RowsHaveBlobs ==
    \A id \in ThreadIds :
        threads[id].present
           => bucket[id].stored /\ bucket[id].key = << name, id >> /\ bucket[id].body.latest

\* a blob that is there stays, under its key
C24_BlobStays ==
    \A id \in ThreadIds :
        bucket[id].stored => bucket'[id].stored /\ bucket'[id].key = bucket[id].key

\* C24: in every reachable state, each row of the threads table has a thread blob
\* in the blob store under the key '<agent name>/<thread id>.json': syncThread
\* writes the blob before it upserts the row, and nothing deletes a blob.
C24_EveryRowHasItsBlob == []C24_RowsHaveBlobs /\ [][C24_BlobStays]_vars

\* a thread has a blob and no row yet, another has both
C24_Witness ==
    /\ \E id \in ThreadIds : bucket[id].stored /\ ~threads[id].present
    /\ \E id \in ThreadIds : bucket[id].stored /\ threads[id].present

(***************************************************************************)
(* Paging through a cache listing                                          *)
(***************************************************************************)
\* the ids of the pages of the paging so far
C25_Paged == listed.seen \o IdsOf(listed.rows)

\* the listing the paging started with
C25_First == [listed EXCEPT !.pageToken = listed.start]

\* the filter is one that getThreadsFromDB applies on every page: none, a folder
\* alone or one label alone
C25_Filtered ==
    /\ Falsy(FreeText(listed))
    /\ Len(listed.labelIds) <= 1
    /\ Falsy(listed.folder) \/ Len(listed.labelIds) = 0

\* C25: paging through a cache listing by passing each returned next cursor to the
\* following call (same filter, same limit of at least one row, cache not modified
\* in between) returns every matching row exactly once: no row appears on two
\* pages and, when the last page has come, no matching row was skipped, also when
\* several rows share the same latestReceivedOn.
C25_EveryRowExactlyOnce ==
    listed.called /\ listed.maxResults > 0 /\ C25_Filtered
       => /\ \A a, b \in 1 .. Len(C25_Paged) : a # b => C25_Paged[a] # C25_Paged[b]
          /\ ~listed.nextPageToken.given
                => \A id \in Matching(C25_First) :
                      \E k \in 1 .. Len(C25_Paged) : C25_Paged[k] = id

\* C26: every page returned by a cache listing is ordered by latestReceivedOn
\* descending and holds at most maxResults rows (50 when no limit is given).
C26_OrderedAndLimited ==
    listed.called
       => /\ \A a, b \in 1 .. Len(listed.rows) :
                a < b => ~TextLess(listed.rows[a].latest_received_on,
                                   listed.rows[b].latest_received_on)
          /\ Len(listed.rows) <= listed.maxResults
          /\ ~listed.given => listed.maxResults = 50

\* a page of two rows with different dates of a cache of three rows, limit given
C26_Witness ==
    /\ listed.called
    /\ listed.given
    /\ listed.maxResults = 2
    /\ Len(listed.rows) = 2
    /\ listed.rows[1].latest_received_on # listed.rows[2].latest_received_on
    /\ ThreadCountOf(threads) = 3
    /\ listed.nextPageToken.given

\* C27: a getThread never returns a mixed snapshot: the labels and hasUnread (read
\* from the cache row) and the messages (read from the blob) of one result come
\* from the same sync of that thread, under every interleaving of getThread with
\* a concurrent syncThread of the same id.
C27_NoMixedSnapshot ==
    step.op \in GetOperations /\ step.ret.kind = "return"
       => /\ step.ret.messages.latest
          /\ step.ret.labels = step.ret.messages.tags
          /\ step.ret.hasUnread = Among("UNREAD", step.ret.messages.tags)

\* the step in which a searchThreads call returns
C28_ReturnStep ==
    \A c \in Calls :
        calls[c].pc = "search" /\ calls'[c] = IdleCall /\ step'.ret.kind = "return"
           => /\ step'.ret.message = "autorag" <=> Len(calls[c].rag.ids) > 0
              /\ step'.ret.message = "autorag"
                    => /\ step'.ret.threadIds = calls[c].rag.ids
                       /\ Len(step'.ret.threadIds) <= calls[c].maxResults
                       /\ \A k \in 1 .. Len(step'.ret.threadIds) :
                             step'.ret.threadIds[k] \in ThreadIds
              /\ step'.ret.message # "autorag"
                    => /\ step'.ret.message = "raw"
                       /\ step'.ret.threadIds = calls[c].raw.ids

\* C28: searchThreads returns the semantic-search ids with source 'autorag' if and
\* only if the semantic branch yielded at least one thread id (then at most
\* maxResults ids are returned); otherwise it returns the raw-listing ids with
\* source 'raw'.
C28_AutoragIffIds == [][C28_ReturnStep]_vars

\* the semantic ids were returned, cut to one id, although the raw listing resolved
C28_Witness ==
    /\ step.op = "searchThreads"
    /\ step.ret.kind = "return"
    /\ step.ret.message = "autorag"
    /\ step.ret.threadIds = << "t1" >>
    /\ step.fx = << Fx("rag", "resolved"), Fx("raw", "resolved") >>

(***************************************************************************)
(* A use-chat-request that is no POST                                      *)
(***************************************************************************)
\* the step of a use-chat-request whose init.method is not 'POST'
C31_OtherStep ==
    (\E method \in OtherMethods : step'.op = UseChatRequestWith(method))
    => /\ step'.ret.kind = "return"
       /\ step'.fx = <<>>
       /\ UNCHANGED << messages, cf_ai_chat_agent_messages, chatMessageAbortControllers,
                       chats, sent >>

\* C31: a use-chat-request whose init.method is not 'POST' has no effect: no
\* chat-messages broadcast, no message persistence, no cancellation handle
\* created, no response chunk sent, and it does not fall through to the handling
\* of any other message type.
C31_NonPostRequestHasNoEffect == [][C31_OtherStep]_vars

\* a GET request has been handled for an id no request was made for, while the
\* other request was streaming and its messages were stored
C31_Witness ==
    /\ step.op = UseChatRequestWith("GET")
    /\ chats[step.arg].pc = "idle"
    /\ ~HasAbortController(step.arg)
    /\ messages # <<>>
    /\ \E id \in ChatIds : HasAbortController(id) /\ chats[id].gen = "running"

(***************************************************************************)
(* The syncs setupAuth starts                                              *)
(***************************************************************************)
\* the number of syncThreads(folder) calls setupAuth has made with a driver
C32_Started(folder) ==
    Cardinality({ k \in 1 .. Len(syncsStarted) :
                    syncsStarted[k] = SyncStarted(folder, TRUE) })

\* C32: setupAuth is a no-op for the 'general' connection and when a driver is
\* already established; when it establishes the driver it starts a sync for
\* exactly the folders inbox, sent, spam and archive, so that over any sequence
\* and interleaving of onConnect/setupAuth calls on one agent the initial
\* four-folder sync is started at most once: no folder's sync is started twice
\* on an agent with a driver.
C32_InitialSyncStartedAtMostOnce ==
    \A k \in 1 .. Len(SyncedFolders) : C32_Started(SyncedFolders[k]) <= 1

(***************************************************************************)
(* What syncThreads reports                                                *)
(***************************************************************************)
\* a step in which a syncThreads call returns
C33_ReturnStep ==
    step'.op = "syncThreads" /\ step'.ret.kind = "return"
    => step'.ret.synced = Len(calls[step'.c].summaries)

\* C33: on normal return, syncThreads reports synced equal to the total number of
\* thread summaries listed across all pages it fetched, counting also threads
\* whose individual sync failed or was skipped (no latest message, or already in
\* progress).
C33_SyncedCountsEverySummary == [][C33_ReturnStep]_vars

\* a syncThreads('inbox') call has returned after two pages with synced 3 while
\* fewer than three threads have a row
C33_Witness ==
    /\ step.op = "syncThreads"
    /\ step.arg = "inbox"
    /\ step.ret.kind = "return"
    /\ step.ret.synced = 3
    /\ ThreadCountOf(threads) < 3

(***************************************************************************)
(* The mail-list notifications of syncThreads                              *)
(***************************************************************************)
\* the number of mail-list notifications for the folder among the effects
C34_Notifications(effects, folder) ==
    Cardinality({ k \in 1 .. Len(effects) : effects[k] = MailList(folder) })

\* call c has set its folder's marker and is inside the try block
C34_PastGuard(c) ==
    calls[c].op = "syncThreads" /\ calls[c].pc \in {"list", "loop", "get", "put", "upsert"}

\* call c has run the for loop over its page to the end
C34_PageProcessed(c) ==
    calls[c].pc = "loop" /\ calls[c].i > Len(calls[c].resThreads)

\* a step of a call past the guard that ends a page, or leaves syncThreads
C34_Step ==
    \A c \in Calls :
        C34_PastGuard(c) /\ step'.c = c
        => /\ C34_PageProcessed(c)
              => step'.fx # <<>> /\ step'.fx[1] = MailList(calls[c].folder)
           /\ calls'[c].pc = "idle"
              => /\ step'.ret.kind \in {"return", "throw"}
                 /\ step'.fx # <<>>
                 /\ step'.fx[Len(step'.fx)] = MailList(calls[c].folder)
                 /\ C34_Notifications(step'.fx, calls[c].folder)
                       = IF C34_PageProcessed(c) THEN 2 ELSE 1
                 /\ calls[c].folder \notin foldersInSync'

\* C34: a syncThreads call that passed the guard broadcasts a mail-list
\* notification for its folder after each processed page, and on every exit path
\* (normal return or exception) broadcasts one final mail-list notification for
\* the folder after the folder's busy marker has been cleared.
C34_NotifiesPagesAndExit == [][C34_Step]_vars

\* a syncThreads call has left with the exception of a listing, while threads
\* were cached
C34_Witness ==
    /\ step.op = "syncThreads"
    /\ step.ret = Throw(ListError)
    /\ step.fx[Len(step.fx)] = MailList(step.arg)
    /\ step.arg \notin foldersInSync
    /\ ThreadCountOf(threads) > 0

(***************************************************************************)
(* The archive hotkey                                                      *)
(***************************************************************************)
\* the ids the archive hotkey is pressed for
C35_Targets ==
    IF ~Falsy(hoveredEmailId) THEN << hoveredEmailId >> ELSE mail.bulkSelected

\* the step of archiveEmail
C35_ArchiveStep ==
    step'.op = "archiveEmail"
    => invoked' = IF C35_Targets = <<>> THEN <<>>
                  ELSE << Invoke("bulkArchive", C35_Targets) >>

\* C35: the archive hotkey (archiveEmail) invokes the bulk-archive mutation on
\* exactly the target ids: the hovered email id if one is hovered, otherwise the
\* bulk-selected ids; it invokes no other mutation (in particular not
\* mark-as-unread), and when nothing is hovered and nothing is selected it
\* invokes no mutation at all.
C35_ArchiveInvokesBulkArchive == [][C35_ArchiveStep]_vars

(***************************************************************************)
(* The select-all hotkey                                                   *)
(***************************************************************************)
\* the ids of the listed items
C36_AllIds == [k \in 1 .. Len(items) |-> items[k].id]

\* the step of selectAll
C36_SelectAllStep ==
    step'.op = "selectAll"
    => /\ mail'.bulkSelected =
             IF mail.bulkSelected # <<>> THEN <<>>
             ELSE IF items # <<>> THEN C36_AllIds
             ELSE mail.bulkSelected
       /\ mail'.selected = mail.selected
       /\ DOMAIN mail' = DOMAIN mail

\* selectAll applied twice to the empty selection over a list with items
C36_TwiceIsEmpty ==
    mail.bulkSelected = <<>> /\ items # <<>>
    => /\ BulkSelected(mail, items).bulkSelected # <<>>
       /\ BulkSelected(BulkSelected(mail, items), items) = mail

\* C36: the select-all hotkey is a toggle on the bulk selection: if any email is
\* selected it clears the selection; otherwise, if the list has items, it selects
\* exactly the ids of all listed items; otherwise it leaves the selection
\* unchanged.  Applied twice to a non-empty list with an empty selection it
\* returns to the empty selection, and it never changes any mail state field
\* other than bulkSelected.
C36_SelectAllToggles == [][C36_SelectAllStep]_vars /\ []C36_TwiceIsEmpty

\* selectAll has cleared the selection of all three listed items while a thread
\* was open
C36_Witness ==
    /\ step.op = "selectAll"
    /\ mail = MailOf("t1", <<>>)
    /\ Len(items) = 3
    /\ BulkSelected(mail, items).bulkSelected = << "t2", "t3", "t1" >>

====
